---------------------------- MODULE Spec2Model ----------------------------
(***************************************************************************)
(* Session / tab lifecycle and concurrency manager of camofox-browser      *)
(* (src/server.js, the structured-logging server that starts at line 1313).*)
(*                                                                         *)
(* Part I   models withTabLock (the per-tab promise chain) at the          *)
(*          granularity of the JavaScript job queue.                       *)
(* Part II  models the session registry, tab groups and the route handlers *)
(*          at the granularity of their await points.                      *)
(***************************************************************************)
EXTENDS Naturals, Integers, Sequences, FiniteSets, TLC

(***************************************************************************)
(* PART I : withTabLock                                                    *)
(***************************************************************************)

\* Number of withTabLock calls a behaviour submits (call ids are 1..MaxOps,
\* handed out in submission order).
MaxOps == 4

Ops == 1..MaxOps

\* Objects of each kind (tab ids, session objects, tab-group objects) a
\* behaviour may allocate.
MaxAlloc == 3

TabIds == 1..MaxAlloc

\* Tab ids the calls of Part I are addressed to (T and U).
T == 1
U == 2
LockTabs == {T, U}

NoOp == 0

VARIABLES
    tabLocks,    \* tabLocks : tabId -> call whose operation() promise is stored (NoOp: no entry)
    opTab,       \* tabId argument of each submitted call (0: not submitted yet)
    opPc,        \* position of each withTabLock call
    waitsOn,     \* the call whose promise this call read as `pending` (NoOp: none)
    outcome,     \* how the operation() promise of the call settled: "none" | "ok" | "fail"
    result,      \* what withTabLock delivered to its caller:        "none" | "ok" | "fail"
    bodyRan,     \* whether operation() was invoked for the call
    started,     \* the calls in the order in which their operation() was invoked
    microtasks   \* promise reaction jobs queued, in FIFO order: <<kind, call>>

lockOnlyVars == <<opTab, opPc, waitsOn, outcome, result, bodyRan, started, microtasks>>

\* opPc values:
\*   "idle"     not submitted
\*   "waiting"  suspended at `await pending`                    (line 1497)
\*   "running"  operation() invoked, suspended at `await promise` (line 1508)
\*   "settled"  the operation's promise settled, the finally block is a queued job
\*   "done"     withTabLock returned or threw to its caller

Submitted == {i \in Ops : opPc[i] # "idle"}

\* Calls are submitted in id order: the next call to submit.
NextOp == Cardinality(Submitted) + 1

Settled(i) == opPc[i] \in {"settled", "done"}

\* const pending = tabLocks.get(tabId)                      (line 1494)
PendingOfAnyTab(t) ==
    IF tabLocks[t] # NoOp THEN tabLocks[t]
    ELSE IF \E u \in TabIds : tabLocks[u] # NoOp
         THEN tabLocks[CHOOSE u \in TabIds : tabLocks[u] # NoOp]
         ELSE NoOp

PendingOf(t) == tabLocks[t]

\* try { await pending } catch (e) { /* continue anyway */ } (lines 1496-1500):
\* what the call does once `pending` has settled with outcome o.
AfterPendingNoCatch(o) == IF o = "fail" THEN "throw" ELSE "run"

AfterPending(o) == "run"

\* finally { if (tabLocks.get(tabId) === promise) tabLocks.delete(tabId) }
\* (lines 1509-1514): the lock map after call i has finished.
ReleaseAlways(i) == [tabLocks EXCEPT ![opTab[i]] = NoOp]

Release(i) ==
    IF tabLocks[opTab[i]] = i THEN [tabLocks EXCEPT ![opTab[i]] = NoOp] ELSE tabLocks

\* const promise = operation(); tabLocks.set(tabId, promise) (lines 1504-1505)
StartBody(i, t) ==
    /\ tabLocks' = [tabLocks EXCEPT ![t] = i]
    /\ bodyRan' = [bodyRan EXCEPT ![i] = TRUE]
    /\ started' = Append(started, i)

\* The calls suspended on the promise of call i, in the order they began to wait.
RECURSIVE WaitersFrom(_, _)
WaitersFrom(i, k) ==
    IF k > MaxOps THEN <<>>
    ELSE IF opPc[k] = "waiting" /\ waitsOn[k] = i
         THEN <<<<"resume", k>>>> \o WaitersFrom(i, k + 1)
         ELSE WaitersFrom(i, k + 1)

LockInit ==
    /\ tabLocks = [t \in TabIds |-> NoOp]
    /\ opTab = [i \in Ops |-> 0]
    /\ opPc = [i \in Ops |-> "idle"]
    /\ waitsOn = [i \in Ops |-> NoOp]
    /\ outcome = [i \in Ops |-> "none"]
    /\ result = [i \in Ops |-> "none"]
    /\ bodyRan = [i \in Ops |-> FALSE]
    /\ started = <<>>
    /\ microtasks = <<>>

\* A route handler calls withTabLock(t, operation). Handlers are entered from
\* the event loop, so no promise job is pending when this runs.
Submit(t) ==
    /\ NextOp <= MaxOps
    /\ microtasks = <<>>
    /\ LET i == NextOp
           pending == PendingOf(t)
       IN  /\ opTab' = [opTab EXCEPT ![i] = t]
           /\ IF pending # NoOp
              THEN /\ opPc' = [opPc EXCEPT ![i] = "waiting"]
                   /\ waitsOn' = [waitsOn EXCEPT ![i] = pending]
                   /\ microtasks' = IF Settled(pending)
                                    THEN Append(microtasks, <<"resume", i>>)
                                    ELSE microtasks
                   /\ UNCHANGED <<tabLocks, bodyRan, started>>
              ELSE /\ opPc' = [opPc EXCEPT ![i] = "running"]
                   /\ StartBody(i, t)
                   /\ UNCHANGED <<waitsOn, microtasks>>
    /\ UNCHANGED <<outcome, result>>

\* The operation of call i ends (the engine call answers, fails or times
\* out): its promise settles and the reactions registered on it are queued,
\* the call's own `await promise` first, then the waiters.
Settle(i, o) ==
    /\ opPc[i] = "running"
    /\ microtasks = <<>>
    /\ outcome' = [outcome EXCEPT ![i] = o]
    /\ opPc' = [opPc EXCEPT ![i] = "settled"]
    /\ microtasks' = <<<<"finally", i>>>> \o WaitersFrom(i, 1)
    /\ UNCHANGED <<tabLocks, opTab, waitsOn, result, bodyRan, started>>

\* Job: `return await promise` resumes in call i and runs the finally block.
Finally(i) ==
    /\ microtasks # <<>>
    /\ Head(microtasks) = <<"finally", i>>
    /\ microtasks' = Tail(microtasks)
    /\ tabLocks' = Release(i)
    /\ opPc' = [opPc EXCEPT ![i] = "done"]
    /\ result' = [result EXCEPT ![i] = outcome[i]]
    /\ UNCHANGED <<opTab, waitsOn, outcome, bodyRan, started>>

\* Job: `await pending` resumes in call i.
Resume(i) ==
    /\ microtasks # <<>>
    /\ Head(microtasks) = <<"resume", i>>
    /\ microtasks' = Tail(microtasks)
    /\ IF AfterPending(outcome[waitsOn[i]]) = "run"
       THEN /\ opPc' = [opPc EXCEPT ![i] = "running"]
            /\ StartBody(i, opTab[i])
            /\ UNCHANGED result
       ELSE /\ opPc' = [opPc EXCEPT ![i] = "done"]
            /\ result' = [result EXCEPT ![i] = "fail"]
            /\ UNCHANGED <<tabLocks, bodyRan, started>>
    /\ UNCHANGED <<opTab, waitsOn, outcome>>

(***************************************************************************)
(* PART II : session registry, tab groups, route handlers                  *)
(*                                                                         *)
(* Sessions and tab groups are JavaScript objects that a suspended handler *)
(* keeps referring to after the registry dropped them, so they live on a   *)
(* heap of numbered objects. An object nothing refers to any more is       *)
(* garbage: every step stores the heap with such objects cleared (Heap).   *)
(***************************************************************************)

\* const MAX_SESSIONS = 50 and const MAX_TABS_PER_SESSION = 10 in the
\* source; the model keeps the comparisons and scales the limits down so
\* that the limits are reached.
MAX_SESSIONS == 2
MAX_TABS_PER_SESSION == 2

\* Route handlers that may be suspended at an await at the same time.
MaxReqs == 2

\* Requests a behaviour of the interleaved specification submits.
MaxCalls == 3

\* Cap of the per-tab interaction counter (toolCalls) in the model.
MaxToolCalls == 1

Users == {"A", "B", "C"}
GroupKeys == {"default", "g1"}
Urls == {"none", "ok", "bad"}     \* no url, an http(s) url, a url validateUrl rejects
Reqs == 1..MaxReqs

UserIdx(u) == CASE u = "A" -> 1 [] u = "B" -> 2 [] OTHER -> 3
KeyIdx(k) == IF k = "default" THEN 1 ELSE 2

\* Session objects: the one numbered UserIdx(u) is the session made for u
\* while no handler still holds an older session of u; the numbers above
\* serve when one does. Tab-group objects likewise, per session and key.
SessIds == 1..(Cardinality(Users) + MaxReqs)
SpareSess == {s \in SessIds : s > Cardinality(Users)}
GroupIds == 1..(Cardinality(GroupKeys) * Cardinality(SessIds) + MaxReqs)
SpareGroups == {g \in GroupIds : g > Cardinality(GroupKeys) * Cardinality(SessIds)}
GroupIdx(s, k) == (s - 1) * Cardinality(GroupKeys) + KeyIdx(k)

\* The per-tab operations: the routes under /tabs/:tabId and the kinds of
\* POST /act.
TabOps == {"navigate", "snapshot", "click", "type", "press", "scroll", "back",
           "forward", "refresh", "links", "screenshot", "stats",
           "act", "act_close"}

\* tabState.toolCalls++ in the handler
CountsToolCall(op) == op \notin {"screenshot", "stats"}
\* the handler runs its engine calls inside withTabLock
Locked(op) == op \in {"navigate", "click", "type", "press", "back", "forward",
                      "refresh", "act", "act_close", "nav_alias"}
\* tabState.refs = await buildRefs(tabState.page)
RebuildsRefs(op) == op \in {"navigate", "snapshot", "click", "back", "forward", "refresh",
                            "nav_alias"}
\* tabState.visitedUrls.add(...)
AddsVisited(op) == op \in {"navigate", "click", "nav_alias"}
\* the operations that hand a url to page.goto: POST /tabs/:tabId/navigate
\* and its alias POST /navigate
NavOps == {"navigate", "nav_alias"}
\* the handler answers 400 for a missing field or a rejected url: before the
\* tab lookup in POST /act and POST /navigate, after it (and after
\* toolCalls++) in navigate, click and type
ValidatesFirst(op) == op \in {"act", "act_close", "nav_alias"}
ValidatesAfter(op) == op \in {"navigate", "click", "type"}
\* GET /tabs/:tabId/stats answers without any await
Synchronous(op) == op = "stats"

VARIABLES
    sessions,    \* sessions : userId -> session object (0: no entry)
    sessCtx,     \* session object -> state of its browsing context: "none" | "open" | "closed"
    sessGroups,  \* session object -> tabGroups : group key -> tab-group object (0: no entry)
    groupTabs,   \* tab-group object -> the tab ids it maps
    tabState,    \* tab id -> TabState {refs, visitedUrls, toolCalls}
    nextTab,     \* tab ids handed out so far
    req,         \* the route handlers in progress: slot -> frame (locals and position)
    resp,        \* status of the response the last step sent (0: it sent none)
    calls,       \* requests submitted so far (counted where they are bounded)
    lockQueue,   \* handler slots suspended in withTabLock at `await pending`, oldest first
    lastAccess,  \* session object -> its lastAccess timestamp
    now,         \* Date.now(), in units of the model's clock
    swept,       \* session objects whose context the latest run of the idle sweep closed
    jar          \* session object -> number of cookies imported into its context

regVars == <<sessions, sessCtx, sessGroups, groupTabs, tabState, nextTab, req, resp,
             calls, lockQueue, lastAccess>>

timeVars == <<now, swept>>

cookieVars == <<jar>>

IdleReq == [kind |-> "idle", pc |-> "idle", user |-> "-", key |-> "-", url |-> "-",
            sess |-> 0, grp |-> 0, tab |-> 0, waitsOn |-> 0, cookies |-> 0]

\* createTabState(page)
createTabState == [refs |-> 0, visited |-> FALSE, toolCalls |-> 0]

NoGroups == [k \in GroupKeys |-> 0]

RegInit ==
    /\ sessions = [u \in Users |-> 0]
    /\ sessCtx = [s \in SessIds |-> "none"]
    /\ sessGroups = [s \in SessIds |-> NoGroups]
    /\ groupTabs = [g \in GroupIds |-> {}]
    /\ tabState = [t \in TabIds |-> createTabState]
    /\ nextTab = 0
    /\ req = [r \in Reqs |-> IdleReq]
    /\ resp = 0
    /\ calls = 0
    /\ lockQueue = <<>>
    /\ lastAccess = [s \in SessIds |-> 0]
    /\ jar = [s \in SessIds |-> 0]
    /\ now = 0
    /\ swept = {}

Min(S) == CHOOSE x \in S : \A y \in S : x <= y

\* Objects something still refers to.
SessHeld == {req[r].sess : r \in Reqs} \ {0}
GroupHeld == {req[r].grp : r \in Reqs} \ {0}
SessInUse == ({sessions[u] : u \in Users} \ {0}) \cup SessHeld
GroupInUse ==
    ({sessGroups[s][k] : s \in SessInUse, k \in GroupKeys} \ {0}) \cup GroupHeld
TabInUse == UNION {groupTabs[g] : g \in GroupInUse}

\* The heap after a step that leaves it as ctx, grps, tabs, ts: objects the
\* new registry and the new frames do not reach are cleared. (To be used
\* after the conjuncts that fix sessions' and req'.)
HeapAt(ctx, grps, tabs, ts, la) ==
    /\ lastAccess' = [s \in SessIds |-> IF s \in SessInUse' THEN la[s] ELSE 0]
    /\ sessCtx' = [s \in SessIds |-> IF s \in SessInUse' THEN ctx[s] ELSE "none"]
    /\ sessGroups' = [s \in SessIds |-> IF s \in SessInUse' THEN grps[s] ELSE NoGroups]
    /\ groupTabs' = [g \in GroupIds |-> IF g \in GroupInUse' THEN tabs[g] ELSE {}]
    /\ tabState' = [t \in TabIds |-> IF t \in TabInUse' THEN ts[t] ELSE createTabState]

\* The same for a step that leaves the lastAccess timestamps alone.
Heap(ctx, grps, tabs, ts) == HeapAt(ctx, grps, tabs, ts, lastAccess)

\* session.lastAccess = Date.now()
Touch(s) == [lastAccess EXCEPT ![s] = now]

\* sessions.size
SessionCount == Cardinality({u \in Users : sessions[u] # 0})

\* for (const group of session.tabGroups.values()) totalTabs += group.size
\* (gs: the tabGroups map of the session)
RECURSIVE SumSizes(_, _)
SumSizes(gs, K) ==
    IF K = {} THEN 0
    ELSE LET k == CHOOSE k \in K : TRUE
         IN  (IF gs[k] = 0 THEN 0 ELSE Cardinality(groupTabs[gs[k]]))
               + SumSizes(gs, K \ {k})

TotalTabs(gs) == SumSizes(gs, GroupKeys)

\* if (totalTabs >= MAX_TABS_PER_SESSION)
QuotaReachedOffByOne(n) == n > MAX_TABS_PER_SESSION

QuotaReached(n) == n >= MAX_TABS_PER_SESSION

NotFound == [found |-> FALSE, key |-> "-", grp |-> 0]

\* findTab(session, tabId): scan of the session's groups.
findTab(s, t) ==
    IF \E k \in GroupKeys : sessGroups[s][k] # 0 /\ t \in groupTabs[sessGroups[s][k]]
    THEN LET k == CHOOSE k \in GroupKeys :
                     sessGroups[s][k] # 0 /\ t \in groupTabs[sessGroups[s][k]]
         IN  [found |-> TRUE, key |-> k, grp |-> sessGroups[s][k]]
    ELSE NotFound

\* const session = sessions.get(normalizeUserId(userId));
\* const found = session && findTab(session, tabId);
LookupAnySession(u, t) ==
    IF \E v \in Users : sessions[v] # 0 /\ findTab(sessions[v], t).found
    THEN findTab(sessions[CHOOSE v \in Users :
                     sessions[v] # 0 /\ findTab(sessions[v], t).found], t)
    ELSE NotFound

Lookup(u, t) ==
    IF sessions[u] = 0 THEN NotFound ELSE findTab(sessions[u], t)

\* validateUrl(url) returns an error: the url does not parse or its scheme is
\* not http: or https:.
validateUrlAcceptsAll(url) == FALSE

validateUrl(url) == url # "ok"

\* crypto.randomUUID(): a tab id never handed out before.
RepeatedTabId == IF nextTab = 0 THEN 1 ELSE nextTab

FreshTabId == nextTab + 1

\* { context, tabGroups: new Map(), ... }: the object number for a new
\* session of user u.
NewSession(u) ==
    IF UserIdx(u) \notin SessHeld THEN UserIdx(u) ELSE Min(SpareSess \ SessInUse)

\* new Map(): the object number for a new group under key k of session s.
NewGroup(s, k) ==
    IF GroupIdx(s, k) \notin GroupHeld THEN GroupIdx(s, k)
    ELSE Min(SpareGroups \ GroupInUse)

\* A new request takes the lowest free handler slot.
FreeSlot(r) == req[r].pc = "idle" /\ \A q \in Reqs : q < r => req[q].pc # "idle"

AllIdle == \A r \in Reqs : req[r].pc = "idle"

\* res.status(status).json(...): the handler ends.
Respond(r, status) ==
    /\ req' = [req EXCEPT ![r] = IdleReq]
    /\ resp' = status

\* The handler suspends at an await with frame fr.
Suspend(r, fr) ==
    /\ req' = [req EXCEPT ![r] = fr]
    /\ resp' = 0

----------------------------------------------------------------------------
\* POST /tabs and POST /tabs/open once getSession has returned session s
\* (ss, ctx, grps: the registry, the contexts and the tabGroups maps as
\* getSession left them): the quota check, getTabGroup and the call of
\* session.context.newPage().
WithSession(r, fr, s, ss, ctx, grps) ==
    /\ sessions' = ss
    /\ UNCHANGED <<nextTab, tabLocks, lockQueue>>
    /\ IF QuotaReached(TotalTabs(grps[s]))
       THEN /\ Respond(r, 429)
            /\ HeapAt(ctx, grps, groupTabs, tabState, Touch(s))
       ELSE LET old == grps[s][fr.key]
                g == IF old # 0 THEN old ELSE NewGroup(s, fr.key)
            IN  /\ Suspend(r, [fr EXCEPT !.pc = "newpage", !.sess = s, !.grp = g])
                /\ HeapAt(ctx, [grps EXCEPT ![s][fr.key] = g],
                          [groupTabs EXCEPT ![g] = IF old # 0 THEN @ ELSE {}], tabState,
                          Touch(s))

\* POST /sessions/:userId/cookies once getSession has returned session s:
\* the call of session.context.addCookies(sanitized).
CookiesWithSession(r, fr, s, ss, ctx, grps) ==
    /\ sessions' = ss
    /\ UNCHANGED <<nextTab, tabLocks, lockQueue>>
    /\ Suspend(r, [fr EXCEPT !.pc = "add_cookies", !.sess = s])
    /\ HeapAt(ctx, grps, groupTabs, tabState, Touch(s))

\* const session = await getSession(userId); then the route goes on.
AfterGetSession(r, fr, s, ss, ctx, grps) ==
    IF fr.kind = "cookies"
    THEN CookiesWithSession(r, fr, s, ss, ctx, grps)
    ELSE WithSession(r, fr, s, ss, ctx, grps)

\* getSession(userId), up to its first await or its return.
GetSessionCall(r, fr) ==
    IF sessions[fr.user] # 0
    THEN AfterGetSession(r, fr, sessions[fr.user], sessions, sessCtx, sessGroups)
    ELSE /\ IF SessionCount >= MAX_SESSIONS
            THEN Respond(r, 500)  \* throw new Error('Maximum concurrent sessions reached')
            ELSE Suspend(r, [fr EXCEPT !.pc = "gs_context"])
         /\ sessions' = sessions
         /\ Heap(sessCtx, sessGroups, groupTabs, tabState)
         /\ UNCHANGED <<nextTab, tabLocks, lockQueue>>

\* The handler answers 400 before it touches anything.
BadRequest(r) ==
    /\ Respond(r, 400)
    /\ UNCHANGED <<sessions, sessCtx, sessGroups, groupTabs, tabState, nextTab,
                   tabLocks, lockQueue, lastAccess>>

\* POST /tabs {userId, sessionKey, url}
CreateTabEntry(r, u, k, url, fieldsOk) ==
    /\ FreeSlot(r)
    /\ IF ~fieldsOk
       THEN BadRequest(r)   \* userId and sessionKey required
       ELSE GetSessionCall(r, [IdleReq EXCEPT !.kind = "create", !.user = u,
                                              !.key = k, !.url = url])

\* POST /tabs/open {userId, url, listItemId = 'default'}
OpenTabEntry(r, u, url, fieldsOk) ==
    /\ FreeSlot(r)
    /\ IF ~fieldsOk \/ url = "none" \/ validateUrl(url)
       THEN BadRequest(r)   \* userId is required, url is required, validateUrl
       ELSE GetSessionCall(r, [IdleReq EXCEPT !.kind = "open", !.user = u,
                                              !.key = "default", !.url = url])

\* sessions.set(key, session)
SetSession(u, s) == [sessions EXCEPT ![u] = s]

\* getSession: ensureBrowser() and b.newContext() have answered; the session
\* is built and stored under the key, whatever the key holds by now, and the
\* route handler goes on with it.
GsContext(r, ok) ==
    /\ req[r].pc = "gs_context"
    /\ IF ok
       THEN LET s == NewSession(req[r].user) IN
            AfterGetSession(r, req[r], s, SetSession(req[r].user, s),
                        [sessCtx EXCEPT ![s] = "open"],
                        [sessGroups EXCEPT ![s] = NoGroups])
       ELSE /\ Respond(r, 500)
            /\ sessions' = sessions
            /\ Heap(sessCtx, sessGroups, groupTabs, tabState)
            /\ UNCHANGED <<nextTab, tabLocks, lockQueue>>

\* session.context.newPage() has answered: the tab is registered, then the
\* optional url is validated and loaded.
NewPage(r, ok) ==
    /\ req[r].pc = "newpage"
    /\ sessions' = sessions
    /\ UNCHANGED <<tabLocks, lockQueue>>
    /\ IF ok
       THEN /\ sessCtx[req[r].sess] = "open"
            /\ nextTab < MaxAlloc
            /\ LET t == FreshTabId IN
               /\ nextTab' = nextTab + 1
               /\ CASE req[r].kind = "create" /\ req[r].url = "none" -> Respond(r, 200)
                    [] req[r].kind = "create" /\ validateUrl(req[r].url) -> Respond(r, 400)
                    [] OTHER -> Suspend(r, [req[r] EXCEPT !.pc = "goto", !.sess = 0,
                                                          !.grp = 0, !.tab = t])
               /\ Heap(sessCtx, sessGroups,
                       [groupTabs EXCEPT ![req[r].grp] = @ \cup {t}],
                       [tabState EXCEPT ![t] = createTabState])
       ELSE /\ Respond(r, 500)
            /\ nextTab' = nextTab
            /\ Heap(sessCtx, sessGroups, groupTabs, tabState)

\* page.goto(url) has answered.
Goto(r, ok) ==
    /\ req[r].pc = "goto"
    /\ sessions' = sessions
    /\ UNCHANGED <<nextTab, tabLocks, lockQueue>>
    /\ Respond(r, IF ok THEN 200 ELSE 500)
    /\ Heap(sessCtx, sessGroups, groupTabs,
            IF ok THEN [tabState EXCEPT ![req[r].tab].visited = TRUE] ELSE tabState)

----------------------------------------------------------------------------
\* POST /sessions/:userId/cookies { cookies }
\*
\* if (cookies.length > 500), scaled down
MAX_COOKIES == 2

\* The longest cookies array of a request.
MaxCookies == 3

\* A cookie of the request: a well-formed one, null (or another non-object),
\* one without a name, one whose value is not a string, one whose domain is
\* the empty string.
CookieKinds == {"ok", "null", "noName", "noValue", "emptyDomain"}

RECURSIVE CookieListsUpTo(_)
CookieListsUpTo(n) ==
    IF n = 0 THEN {<<>>}
    ELSE LET shorter == CookieListsUpTo(n - 1)
         IN  shorter \cup {Append(l, c) : l \in {x \in shorter : Len(x) = n - 1},
                                          c \in CookieKinds}

\* The Authorization header: none, a bearer token that is not the key, the
\* key.  The body: without a cookies field, with one that is no array, with
\* an array.
AuthKinds == {"none", "wrong", "key"}
BodyKinds == {"missing", "notArray", "array"}

\* The arrays of the requests: every array the length check lets through,
\* and longer ones.
CookieLists ==
    CookieListsUpTo(MAX_COOKIES)
       \cup {[i \in 1..n |-> c] : n \in (MAX_COOKIES + 1)..MaxCookies, c \in CookieKinds}

\* The requests: each check of the route failing in turn (what the route
\* does not look at any more being well-formed), and every array.
CookieRequests ==
    {[apiKey |-> FALSE, auth |-> a, body |-> "array", cookies |-> <<"ok">>] : a \in AuthKinds}
       \cup {[apiKey |-> TRUE, auth |-> a, body |-> "array", cookies |-> <<"ok">>] :
                a \in AuthKinds \ {"key"}}
       \cup {[apiKey |-> TRUE, auth |-> "key", body |-> b, cookies |-> <<>>] :
                b \in BodyKinds \ {"array"}}
       \cup {[apiKey |-> TRUE, auth |-> "key", body |-> "array", cookies |-> l] :
                l \in CookieLists}

\* The validation loop: the entries pushed to `invalid`.
InvalidIfAll(cookies) ==
    IF \A i \in DOMAIN cookies : cookies[i] # "ok" THEN DOMAIN cookies ELSE {}

InvalidCookies(cookies) == {i \in DOMAIN cookies : cookies[i] # "ok"}

\* The route up to its first await: every check, then getSession.
CookieImportEntry(r, u, apiKey, auth, body, cookies) ==
    /\ FreeSlot(r)
    /\ IF ~apiKey \/ auth # "key"
       THEN /\ Respond(r, 403)
            /\ UNCHANGED <<sessions, sessCtx, sessGroups, groupTabs, tabState, nextTab,
                           tabLocks, lockQueue, lastAccess>>
       ELSE IF \/ body # "array"
               \/ Len(cookies) > MAX_COOKIES
               \/ InvalidCookies(cookies) # {}
       THEN BadRequest(r)
       ELSE GetSessionCall(r, [IdleReq EXCEPT !.kind = "cookies", !.user = u,
                                              !.cookies = Len(cookies)])

\* session.context.addCookies(sanitized) has answered.
AddCookies(r, ok) ==
    /\ req[r].pc = "add_cookies"
    /\ jar' = IF ok THEN [jar EXCEPT ![req[r].sess] = @ + req[r].cookies] ELSE jar
    /\ Respond(r, IF ok THEN 200 ELSE 500)
    /\ sessions' = sessions
    /\ UNCHANGED <<nextTab, tabLocks, lockQueue>>
    /\ Heap(sessCtx, sessGroups, groupTabs, tabState)

----------------------------------------------------------------------------
\* DELETE /tabs/:tabId {userId}
DeleteTabEntry(r, u, t) ==
    /\ FreeSlot(r)
    /\ LET f == Lookup(u, t) IN
       IF f.found
       THEN Suspend(r, [IdleReq EXCEPT !.kind = "deltab", !.pc = "dt_close", !.user = u,
                                       !.sess = sessions[u], !.key = f.key,
                                       !.grp = f.grp, !.tab = t])
       ELSE Respond(r, 200)
    /\ UNCHANGED <<sessions, sessCtx, sessGroups, groupTabs, tabState, nextTab,
                   tabLocks, lockQueue, lastAccess>>

\* found.tabState.page.close() has answered:
\* found.group.delete(tabId); tabLocks.delete(tabId);
\* if (found.group.size === 0) session.tabGroups.delete(found.listItemId)
DtClose(r, ok) ==
    /\ req[r].pc = "dt_close"
    /\ sessions' = sessions
    /\ UNCHANGED <<nextTab, lockQueue>>
    /\ Respond(r, IF ok THEN 200 ELSE 500)
    /\ IF ok
       THEN LET tabs == [groupTabs EXCEPT ![req[r].grp] = @ \ {req[r].tab}] IN
            /\ tabLocks' = [tabLocks EXCEPT ![req[r].tab] = NoOp]
            /\ Heap(sessCtx,
                    IF tabs[req[r].grp] = {}
                    THEN [sessGroups EXCEPT ![req[r].sess][req[r].key] = 0]
                    ELSE sessGroups,
                    tabs, tabState)
       ELSE /\ tabLocks' = tabLocks
            /\ Heap(sessCtx, sessGroups, groupTabs, tabState)

\* DELETE /tabs/group/:listItemId {userId}
DeleteGroupEntry(r, u, k) ==
    /\ FreeSlot(r)
    /\ sessions' = sessions
    /\ UNCHANGED <<nextTab, tabLocks, lockQueue>>
    /\ LET s == sessions[u]
           g == IF s = 0 THEN 0 ELSE sessGroups[s][k]
       IN  IF g = 0
           THEN /\ Respond(r, 200)
                /\ Heap(sessCtx, sessGroups, groupTabs, tabState)
           ELSE IF groupTabs[g] = {}
           THEN /\ Respond(r, 200)
                /\ Heap(sessCtx, [sessGroups EXCEPT ![s][k] = 0], groupTabs, tabState)
           ELSE /\ Suspend(r, [IdleReq EXCEPT !.kind = "delgroup", !.pc = "dg_close",
                                              !.user = u, !.sess = s, !.key = k,
                                              !.grp = g, !.tab = Min(groupTabs[g])])
                /\ Heap(sessCtx, sessGroups, groupTabs, tabState)

\* One turn of the loop: page.close().catch(() => {}) has answered for the
\* tab at hand and its lock entry is deleted; the Map iterator moves to the
\* next entry, and after the last one the group is removed from the session.
DgClose(r) ==
    /\ req[r].pc = "dg_close"
    /\ sessions' = sessions
    /\ UNCHANGED <<nextTab, lockQueue>>
    /\ tabLocks' = [tabLocks EXCEPT ![req[r].tab] = NoOp]
    /\ LET rest == {t \in groupTabs[req[r].grp] : t > req[r].tab} IN
       IF rest # {}
       THEN /\ Suspend(r, [req[r] EXCEPT !.tab = Min(rest)])
            /\ Heap(sessCtx, sessGroups, groupTabs, tabState)
       ELSE /\ Respond(r, 200)
            /\ Heap(sessCtx, [sessGroups EXCEPT ![req[r].sess][req[r].key] = 0],
                    groupTabs, tabState)

\* DELETE /sessions/:userId
CloseSessionEntry(r, u) ==
    /\ FreeSlot(r)
    /\ IF sessions[u] # 0
       THEN Suspend(r, [IdleReq EXCEPT !.kind = "closesess", !.pc = "cs_close",
                                       !.user = u, !.sess = sessions[u]])
       ELSE Respond(r, 200)
    /\ UNCHANGED <<sessions, sessCtx, sessGroups, groupTabs, tabState, nextTab,
                   tabLocks, lockQueue, lastAccess>>

\* sessions.delete(userId)
KeepSession(u) == sessions

DeleteSession(u) == [sessions EXCEPT ![u] = 0]

\* session.context.close() has answered.
CsClose(r, ok) ==
    /\ req[r].pc = "cs_close"
    /\ UNCHANGED <<nextTab, tabLocks, lockQueue>>
    /\ IF ok
       THEN /\ sessions' = DeleteSession(req[r].user)
            /\ Respond(r, 200)
            /\ Heap([sessCtx EXCEPT ![req[r].sess] = "closed"], sessGroups, groupTabs,
                    tabState)
       ELSE /\ sessions' = sessions
            /\ Respond(r, 500)
            /\ Heap(sessCtx, sessGroups, groupTabs, tabState)

----------------------------------------------------------------------------
ListTabsViaGetSession(r, u) ==
    /\ FreeSlot(r)
    /\ GetSessionCall(r, [IdleReq EXCEPT !.kind = "create", !.user = u,
                                         !.key = "default", !.url = "none"])

\* GET /tabs?userId=: the tabs of the tenant's session, or an empty list
\* when the tenant has no session. The handler only reads the registry (and
\* each page's title), so it is one step.
ListTabsEntry(r, u) ==
    /\ FreeSlot(r)
    /\ Respond(r, 200)
    /\ UNCHANGED <<sessions, sessCtx, sessGroups, groupTabs, tabState, nextTab,
                   tabLocks, lockQueue, lastAccess>>

----------------------------------------------------------------------------
\* tabState.toolCalls++
Counted(op, t) ==
    IF CountsToolCall(op) THEN [tabState EXCEPT ![t].toolCalls = @ + 1] ELSE tabState

\* A per-tab operation: the handler up to its first await. url: the url of
\* the request (for navigate, after the macro expansion:
\* expandMacro(macro, query) || url); fieldsOk: the other required fields
\* are there.
TabOpCall(r, u, t, op, url, fieldsOk) ==
    /\ FreeSlot(r)
    /\ UNCHANGED <<sessions, sessCtx, sessGroups, groupTabs, nextTab, lastAccess>>
    /\ LET f == Lookup(u, t)
           fr == [IdleReq EXCEPT !.kind = op, !.user = u, !.grp = f.grp, !.tab = t,
                                 !.url = IF op \in NavOps THEN url ELSE "-"]
           refused == ~fieldsOk \/ (op \in NavOps /\ validateUrl(url))
       IN  IF ValidatesFirst(op) /\ refused
           THEN Respond(r, 400) /\ UNCHANGED <<tabState, tabLocks, lockQueue>>
           ELSE IF ~f.found
           THEN Respond(r, 404) /\ UNCHANGED <<tabState, tabLocks, lockQueue>>
           ELSE /\ (CountsToolCall(op) => tabState[t].toolCalls < MaxToolCalls)
                /\ tabState' = Counted(op, t)
                /\ IF ValidatesAfter(op) /\ refused
                   THEN Respond(r, 400) /\ UNCHANGED <<tabLocks, lockQueue>>
                   ELSE IF Synchronous(op)
                   THEN Respond(r, 200) /\ UNCHANGED <<tabLocks, lockQueue>>
                   ELSE IF Locked(op) /\ tabLocks[t] # NoOp
                   THEN /\ Suspend(r, [fr EXCEPT !.pc = "op_wait", !.waitsOn = tabLocks[t]])
                        /\ lockQueue' = Append(lockQueue, r)
                        /\ tabLocks' = tabLocks
                   ELSE /\ Suspend(r, [fr EXCEPT !.pc = "op_run"])
                        /\ tabLocks' = IF Locked(op) THEN [tabLocks EXCEPT ![t] = r]
                                       ELSE tabLocks
                        /\ lockQueue' = lockQueue

\* The same with a url that validateUrl accepts.
TabOpEntry(r, u, t, op, fieldsOk) == TabOpCall(r, u, t, op, "ok", fieldsOk)

\* The slots suspended on the promise of slot r, oldest first.
WaitersOf(r) == SelectSeq(lockQueue, LAMBDA q : req[q].waitsOn = r)

\* The engine calls of the operation have answered. On success the
\* operation's effects on the TabState (or, for close, on the group and the
\* lock map) take place; under withTabLock the finally block then runs and
\* the calls waiting on this one resume, each storing its own promise.
TabOpDone(r, ok) ==
    /\ req[r].pc = "op_run"
    /\ sessions' = sessions
    /\ nextTab' = nextTab
    /\ resp' = IF ok THEN 200 ELSE 500
    /\ LET t == req[r].tab
           op == req[r].kind
           w == WaitersOf(r)
           closes == ok /\ op = "act_close"
           afterOp == IF closes THEN NoOp ELSE tabLocks[t]
           afterFinally == IF Locked(op) /\ afterOp = r THEN NoOp ELSE afterOp
       IN  /\ req' = [q \in Reqs |->
                        IF q = r THEN IdleReq
                        ELSE IF req[q].pc = "op_wait" /\ req[q].waitsOn = r
                        THEN [req[q] EXCEPT !.pc = "op_run", !.waitsOn = 0]
                        ELSE req[q]]
           /\ lockQueue' = SelectSeq(lockQueue, LAMBDA q : req[q].waitsOn # r)
           /\ tabLocks' = [tabLocks EXCEPT
                             ![t] = IF w = <<>> THEN afterFinally ELSE w[Len(w)]]
           /\ Heap(sessCtx, sessGroups,
                   IF closes THEN [groupTabs EXCEPT ![req[r].grp] = @ \ {t}]
                   ELSE groupTabs,
                   IF ok /\ ~closes
                   THEN [tabState EXCEPT
                           ![t].refs = IF RebuildsRefs(op) THEN 1 ELSE @,
                           ![t].visited = IF AddsVisited(op) THEN TRUE ELSE @]
                   ELSE tabState)

----------------------------------------------------------------------------
(***************************************************************************)
(* The idle sweep: setInterval(() => {...}, 60_000)                        *)
(***************************************************************************)

\* const SESSION_TIMEOUT_MS = 30 * 60 * 1000 in the source; the model keeps
\* the comparison and scales the timeout down to clock units.
SESSION_TIMEOUT_MS == 2

\* The clock of the model stops here.
MaxNow == 3

\* if (now - session.lastAccess > SESSION_TIMEOUT_MS)
Expired(s) == now - lastAccess[s] > SESSION_TIMEOUT_MS

\* The users whose entry one run of the loop deletes. fails: the contexts
\* whose close() rejects.
RemovedUntilFailure(fails) ==
    {u \in Users : /\ sessions[u] # 0 /\ Expired(sessions[u])
                   /\ \A v \in Users : (UserIdx(v) <= UserIdx(u) /\ sessions[v] # 0
                                        /\ Expired(sessions[v])) => sessions[v] \notin fails}

\* session.context.close().catch(() => {}): a rejection is swallowed.
Removed(fails) == {u \in Users : sessions[u] # 0 /\ Expired(sessions[u])}

\* One run of the sweep. It has no await: the loop over the sessions runs to
\* its end in one step. close() is called and not awaited.
SweepIdle(fails) ==
    /\ fails \subseteq {sessions[u] : u \in Users} \ {0}
    /\ LET gone == Removed(fails) IN
       /\ swept' = {sessions[u] : u \in gone}
       /\ sessions' = [u \in Users |-> IF u \in gone THEN 0 ELSE sessions[u]]
       /\ req' = req
       /\ Heap([s \in SessIds |-> IF s \in swept' THEN "closed" ELSE sessCtx[s]],
               sessGroups, groupTabs, tabState)
    /\ resp' = 0
    /\ UNCHANGED <<now, nextTab, tabLocks, lockQueue>>

\* Time passes.
Tick ==
    /\ now < MaxNow
    /\ now' = now + 1
    /\ resp' = 0
    /\ UNCHANGED <<swept, sessions, sessCtx, sessGroups, groupTabs, tabState, nextTab,
                   req, tabLocks, lockQueue, lastAccess>>

----------------------------------------------------------------------------
(***************************************************************************)
(* PART III : one tab in detail, the operations on its page and its        *)
(* reference table                                                         *)
(*                                                                         *)
(* The requests on the tab come one at a time; an action is the whole      *)
(* operation of a request whose tab was found, with the answers of the     *)
(* engine as inputs.                                                       *)
(***************************************************************************)

\* Documents the page of the tab shows one after the other.
MaxPage == 3

\* Interactive elements buildRefs finds in a document.
MaxNodes == 2

\* The ref a request names: e1, e2, ... (0: it names a selector, or nothing).
RefArgs == 0..(MaxNodes + 1)

\* The operations on an element, by ref or by selector: the routes click and
\* type and the kinds click, type, hover and scrollIntoView of POST /act.
RefKinds == {"click", "type", "act_click", "act_type", "act_hover", "act_scrollIntoView"}

\* The operations that load a document.
PageKinds == {"navigate", "back", "forward", "refresh"}

\* tabState.refs = await buildRefs(tabState.page) in the operation
Rebuilds(kind) == kind \in PageKinds \cup {"click", "act_click", "snapshot"}

VARIABLES
    page,    \* the document the page shows (a number per document loaded)
    refs,    \* tabState.refs: e_i -> the document its entry was built from
    reply    \* the latest request and its answer

refVars == <<page, refs, reply>>

NoReply == [kind |-> "-", ref |-> 0, status |-> 0, error |-> "-", acted |-> FALSE]

RefInit ==
    /\ page = 0
    /\ refs = <<>>      \* refs: new Map() in createTabState
    /\ reply = NoReply

\* buildRefs(page): a new Map with an entry for each of the n interactive
\* elements of document v.
buildRefsKeepingOld(n, v) ==
    [i \in 1..(IF n > Len(refs) THEN n ELSE Len(refs)) |-> IF i <= n THEN v ELSE refs[i]]

buildRefs(n, v) == [i \in 1..n |-> v]

\* refToLocator(page, ref, refs): null when refs.get(ref) is undefined
refToLocator(ref) == ref \in DOMAIN refs

\* throw new Error(`Unknown ref: ${ref} ...`): only the route click adds
\* "Refs reset after navigation - call snapshot first."
UnknownRefError(kind) == IF kind = "click" THEN "unknown_ref_call_snapshot" ELSE "unknown_ref"

\* acted: the operation called the engine to act on the page.
Reply(kind, ref, status, error, acted) ==
    reply' = [kind |-> kind, ref |-> ref, status |-> status, error |-> error,
              acted |-> acted]

\* An operation on an element. sel: the request names a selector; actOk: the
\* engine action succeeds; moved: the click loads another document;
\* buildOk, n: buildRefs succeeds and finds n elements.
ElementOp(kind, ref, sel, actOk, moved, buildOk, n) ==
    /\ kind \in RefKinds
    /\ moved => (actOk /\ kind \in {"click", "act_click"} /\ page < MaxPage)
    /\ IF ref = 0 /\ ~sel /\ kind # "act_scrollIntoView"
       THEN \* 'ref or selector required': 400 in the routes, thrown in POST /act
            /\ Reply(kind, ref, IF kind \in {"click", "type"} THEN 400 ELSE 500,
                     "required", FALSE)
            /\ UNCHANGED <<page, refs>>
       ELSE IF ref # 0 /\ ~refToLocator(ref)
       THEN /\ Reply(kind, ref, 500, UnknownRefError(kind), FALSE)
            /\ UNCHANGED <<page, refs>>
       ELSE IF ~actOk
       THEN /\ Reply(kind, ref, 500, "engine", TRUE)
            /\ UNCHANGED <<page, refs>>
       ELSE /\ page' = IF moved THEN page + 1 ELSE page
            /\ IF Rebuilds(kind) /\ ~buildOk
               THEN Reply(kind, ref, 500, "engine", TRUE) /\ refs' = refs
               ELSE /\ Reply(kind, ref, 200, "-", TRUE)
                    /\ refs' = IF Rebuilds(kind) THEN buildRefs(n, page') ELSE refs

\* navigate, back, forward, refresh and snapshot. actOk: goto, goBack,
\* goForward or reload succeeds; moved: a failed load has replaced the
\* document all the same.
PageOp(kind, actOk, moved, buildOk, n) ==
    /\ kind \in PageKinds \cup {"snapshot"}
    /\ IF kind = "snapshot" THEN actOk /\ ~moved ELSE (actOk => moved)
    /\ moved => page < MaxPage
    /\ page' = IF moved THEN page + 1 ELSE page
    /\ IF actOk /\ buildOk
       THEN Reply(kind, 0, 200, "-", kind # "snapshot") /\ refs' = buildRefs(n, page')
       ELSE Reply(kind, 0, 500, "engine", kind # "snapshot") /\ refs' = refs

----------------------------------------------------------------------------
(***************************************************************************)
(* PART IV : GET /tabs/:tabId/snapshot, the build pass and the annotate    *)
(* pass over the lines of the accessibility tree                           *)
(*                                                                         *)
(* A line is what the two patterns read of it: the role after the dash     *)
(* ("none": the line is not a node line) and the quoted name ("": none).   *)
(* A line of the tree holds no line terminator besides the newline the     *)
(* text is split on, so the rest-of-line group that ends the annotate      *)
(* pattern matches whatever follows the name.                              *)
(***************************************************************************)

\* const MAX_SNAPSHOT_NODES = 500 in the source, scaled down.
MAX_SNAPSHOT_NODES == 2

\* Lines of a tree text.
MaxLines == 3

INTERACTIVE_ROLES == {"button", "link"}

LineKinds ==
    {[role |-> "button", name |-> "x"], [role |-> "button", name |-> ""],
     [role |-> "link", name |-> "x"], [role |-> "combobox", name |-> "x"],
     [role |-> "heading", name |-> "x"], [role |-> "button", name |-> "date"],
     [role |-> "BUTTON", name |-> "x"], [role |-> "none", name |-> ""]}

\* role.toLowerCase()
toLowerCase(role) == IF role = "BUTTON" THEN "button" ELSE role

\* name && SKIP_PATTERNS.some(p => p.test(name))
Skipped(name) == name = "date"

\* The filter of the build pass: the line matches the node pattern, its role
\* is not combobox, its name is not skipped, its role is interactive.
BuildFilter(l) ==
    /\ l.role # "none"
    /\ toLowerCase(l.role) # "combobox"
    /\ ~Skipped(l.name)
    /\ toLowerCase(l.role) \in INTERACTIVE_ROLES

\* The filter of the annotate pass.
AnnotateFilter(l) ==
    /\ l.role # "none"
    /\ toLowerCase(l.role) # "combobox"
    /\ ~Skipped(l.name)
    /\ toLowerCase(l.role) \in INTERACTIVE_ROLES

SeenByRole(table, l) ==
    Cardinality({i \in DOMAIN table : table[i].role = toLowerCase(l.role)})

\* seenCounts.get(key) || 0: the entries made so far for the role and name
Seen(table, l) ==
    Cardinality({i \in DOMAIN table : /\ table[i].role = toLowerCase(l.role)
                                       /\ table[i].name = l.name})

\* buildRefs, the loop over the lines from line i on: refCounter is one more
\* than the entries made.
RECURSIVE BuildFrom(_, _, _)
BuildFrom(lines, i, table) ==
    IF i > Len(lines) \/ Len(table) + 1 > MAX_SNAPSHOT_NODES THEN table
    ELSE IF BuildFilter(lines[i])
    THEN BuildFrom(lines, i + 1,
                   Append(table, [role |-> toLowerCase(lines[i].role),
                                  name |-> lines[i].name,
                                  nth |-> Seen(table, lines[i])]))
    ELSE BuildFrom(lines, i + 1, table)

\* annotationCounts.get(countKey) || 0 at line j: the lines before it that
\* the annotate pass counted for the same role and name.
CountedPerRole(lines, j) ==
    Cardinality({i \in 1..(j - 1) : /\ AnnotateFilter(lines[i])
                                    /\ toLowerCase(lines[i].role) = toLowerCase(lines[j].role)})

CountedBefore(lines, j) ==
    Cardinality({i \in 1..(j - 1) : /\ AnnotateFilter(lines[i])
                                    /\ toLowerCase(lines[i].role) = toLowerCase(lines[j].role)
                                    /\ lines[i].name = lines[j].name})

RefIgnoringNth(table, role, name, nth) ==
    LET ids == {i \in DOMAIN table : table[i].role = role /\ table[i].name = name}
    IN  IF ids = {} THEN 0 ELSE CHOOSE i \in ids : \A k \in ids : k <= i

\* refsByKey.get(key): the ref id of the entry (0: undefined)
RefByKey(table, role, name, nth) ==
    LET ids == {i \in DOMAIN table : table[i] = [role |-> role, name |-> name, nth |-> nth]}
    IN  IF ids = {} THEN 0 ELSE CHOOSE i \in ids : \A k \in ids : k <= i

\* The annotate pass: per line the ref id spliced into it (0: the line is
\* returned as it is). The pass is skipped for an empty table.
AnnotateLines(lines, table) ==
    [j \in 1..Len(lines) |->
       IF Len(table) > 0 /\ AnnotateFilter(lines[j])
       THEN RefByKey(table, toLowerCase(lines[j].role), lines[j].name,
                     CountedBefore(lines, j))
       ELSE 0]

\* GET /snapshot: refsByKey maps `${el.role}:${el.name || ''}` to the first
\* ref id stored for the key: if (!refsByKey.has(key)) refsByKey.set(key, refId)
AliasRefByKey(table, role, name) ==
    LET ids == {i \in DOMAIN table : table[i].role = role /\ table[i].name = name}
    IN  IF ids = {} THEN 0 ELSE CHOOSE i \in ids : \A k \in ids : i <= k

\* The annotate pass of GET /snapshot: every line that matches the node
\* pattern is looked up under its role as written and its name.
AliasAnnotateLines(lines, table) ==
    [j \in 1..Len(lines) |->
       IF Len(table) > 0 /\ lines[j].role # "none"
       THEN AliasRefByKey(table, lines[j].role, lines[j].name)
       ELSE 0]

VARIABLES
    tree,        \* the lines of the accessibility tree of the page
    treeRefs,    \* tabState.refs as the build pass leaves it
    annotated,   \* per line of the answer, the ref id it carries
    snapPc       \* "start" | "built" | "done"

snapVars == <<tree, treeRefs, annotated, snapPc>>

RECURSIVE TextsUpTo(_)
TextsUpTo(n) ==
    IF n = 0 THEN {<<>>}
    ELSE LET shorter == TextsUpTo(n - 1)
         IN  shorter \cup {Append(t, l) : t \in {s \in shorter : Len(s) = n - 1},
                                          l \in LineKinds}

\* The handler is about to take the snapshot of a page with one of the trees.
SnapInit(trees) ==
    /\ tree \in trees
    /\ treeRefs = <<>>
    /\ annotated = <<>>
    /\ snapPc = "start"

\* tabState.refs = await buildRefs(tabState.page)
BuildPass ==
    /\ snapPc \in {"start", "done"}
    /\ snapPc' = "built"
    /\ treeRefs' = BuildFrom(tree, 1, <<>>)
    /\ UNCHANGED <<tree, annotated>>

\* annotatedYaml = lines.map(...).join('\n')
AnnotatePass ==
    /\ snapPc = "built"
    /\ snapPc' = "done"
    /\ annotated' = AnnotateLines(tree, treeRefs)
    /\ UNCHANGED <<tree, treeRefs>>

\* GET /snapshot: annotatedYaml = lines.map(...).join('\n')
AliasAnnotatePass ==
    /\ snapPc = "built"
    /\ snapPc' = "done"
    /\ annotated' = AliasAnnotateLines(tree, treeRefs)
    /\ UNCHANGED <<tree, treeRefs>>

----------------------------------------------------------------------------
(***************************************************************************)
(* PART V : windowSnapshot(yaml, offset)                                   *)
(*                                                                         *)
(* A text is a sequence of UTF-16 code units, as a JavaScript string is.   *)
(* The marker of a truncated window is the template literal of the source, *)
(* character by character, with the numbers in decimal.  The 200 code      *)
(* units the source leaves for the marker are kept; the limit and the tail *)
(* are scaled down around them, the content budget staying larger than the *)
(* tail as it is in the source (74800 and 5000).                           *)
(***************************************************************************)

\* const MAX_SNAPSHOT_CHARS = 80000 and const SNAPSHOT_TAIL_CHARS = 5000,
\* scaled down; the 200 of "- 200; // room for marker".
MAX_SNAPSHOT_CHARS == 208
SNAPSHOT_TAIL_CHARS == 3
MARKER_ROOM == 200

\* The longest text handed to windowSnapshot.
MaxText == 217

\* Texts of n code units: one whose code units are pairwise distinct (so
\* that every position of it can be told from every other), and one that
\* repeats a single letter ('X'.repeat(n)).
DistinctText(n) == [i \in 1..n |-> 1000 + i]
UniformText(n) == [i \in 1..n |-> 88]
Texts(lens) == {DistinctText(n) : n \in lens} \cup {UniformText(n) : n \in lens}

\* Lengths around the limit, and the empty text.
TextLens == {0, 1, MAX_SNAPSHOT_CHARS - 1} \cup (MAX_SNAPSHOT_CHARS..MaxText)

\* Offsets: negative, inside the text, at the tail boundary, past the end.
Offsets == (-1)..(MaxText + 1)

MinOf(a, b) == IF a <= b THEN a ELSE b
MaxOf(a, b) == IF a >= b THEN a ELSE b

\* yaml.slice(from, to) for 0 <= from
Slice(s, from, to) == SubSeq(s, from + 1, MinOf(to, Len(s)))

\* `${n}` for a number n >= 0: its decimal digits
RECURSIVE Decimal(_)
Decimal(n) == IF n < 10 THEN <<48 + n>> ELSE Append(Decimal(n \div 10), 48 + (n % 10))

\* The four literal parts of the marker template:
\* "\n[... truncated at char ", " of ", ". Call snapshot with offset=",
\* " to see more. Pagination links below. ...]\n"
MarkerHead ==
    <<
      10, 91, 46, 46, 46, 32, 116, 114, 117, 110, 99, 97, 116, 101, 100, 32,
      97, 116, 32, 99, 104, 97, 114, 32 >>
MarkerOf ==
    <<
      32, 111, 102, 32 >>
MarkerCall ==
    <<
      46, 32, 67, 97, 108, 108, 32, 115, 110, 97, 112, 115, 104, 111, 116, 32,
      119, 105, 116, 104, 32, 111, 102, 102, 115, 101, 116, 61 >>
MarkerEnd ==
    <<
      32, 116, 111, 32, 115, 101, 101, 32, 109, 111, 114, 101, 46, 32, 80, 97,
      103, 105, 110, 97, 116, 105, 111, 110, 32, 108, 105, 110, 107, 115, 32, 98,
      101, 108, 111, 119, 46, 32, 46, 46, 46, 93, 10 >>

MoreMarker(chunkEnd, total) ==
    MarkerHead \o Decimal(chunkEnd) \o MarkerOf \o Decimal(total)
       \o MarkerCall \o Decimal(chunkEnd) \o MarkerEnd

\* if (total <= MAX_SNAPSHOT_CHARS)
FitsBelowLimit(total) == total < MAX_SNAPSHOT_CHARS

Fits(total) == total <= MAX_SNAPSHOT_CHARS

\* const contentBudget = MAX_SNAPSHOT_CHARS - SNAPSHOT_TAIL_CHARS - 200
BudgetWithoutRoom == MAX_SNAPSHOT_CHARS - SNAPSHOT_TAIL_CHARS

contentBudget == MAX_SNAPSHOT_CHARS - SNAPSHOT_TAIL_CHARS - MARKER_ROOM

\* yaml.slice(-SNAPSHOT_TAIL_CHARS)
TailShort(y) == Slice(y, Len(y) - SNAPSHOT_TAIL_CHARS + 1, Len(y))

TailOf(y) == Slice(y, MaxOf(0, Len(y) - SNAPSHOT_TAIL_CHARS), Len(y))

ClampToTotal(o, total) == MinOf(MaxOf(0, o), total)

\* Math.min(Math.max(0, offset), total - SNAPSHOT_TAIL_CHARS)
Clamp(o, total) == MinOf(MaxOf(0, o), total - SNAPSHOT_TAIL_CHARS)

\* const chunkEnd = clampedOffset + contentBudget
ChunkEndPlusOne(clampedOffset) == clampedOffset + contentBudget + 1

ChunkEnd(clampedOffset) == clampedOffset + contentBudget

\* const hasMore = chunkEnd < total - SNAPSHOT_TAIL_CHARS
HasMoreToEnd(chunkEnd, total) == chunkEnd < total

HasMore(chunkEnd, total) == chunkEnd < total - SNAPSHOT_TAIL_CHARS

windowSnapshot(y, o) ==
    IF y = <<>>
    THEN [text |-> <<>>, truncated |-> FALSE, totalChars |-> 0, offset |-> 0]
    ELSE IF Fits(Len(y))
    THEN [text |-> y, truncated |-> FALSE, totalChars |-> Len(y), offset |-> 0]
    ELSE LET total == Len(y)
             tail == TailOf(y)
             clampedOffset == Clamp(o, total)
             chunk == Slice(y, clampedOffset, clampedOffset + contentBudget)
             chunkEnd == ChunkEnd(clampedOffset)
             hasMore == HasMore(chunkEnd, total)
             marker == IF hasMore THEN MoreMarker(chunkEnd, total) ELSE <<10>>
         IN  [text |-> chunk \o marker \o tail, truncated |-> TRUE, totalChars |-> total,
              offset |-> clampedOffset,
              hasMore |-> hasMore,
              nextOffset |-> IF hasMore THEN chunkEnd ELSE -1]     \* -1: null

VARIABLES
    yaml,      \* the text handed to windowSnapshot
    offset,    \* the offset handed to it
    window,    \* <<what it returned>> (before the call: <<>>)
    chunks     \* what the calls of one reading of the text returned, in order

winVars == <<yaml, offset, window, chunks>>

WinInit(texts, offsets) ==
    /\ yaml \in texts
    /\ offset \in offsets
    /\ window = <<>>
    /\ chunks = <<>>

\* const r = windowSnapshot(yaml, offset)
Window ==
    /\ window = <<>>
    /\ window' = <<windowSnapshot(yaml, offset)>>
    /\ chunks' = Append(chunks, windowSnapshot(yaml, offset))
    /\ UNCHANGED <<yaml, offset>>

\* The caller starts another reading of the same text at an offset of its
\* choice.
Seek(o) ==
    /\ window # <<>>
    /\ offset' = o
    /\ window' = <<>>
    /\ chunks' = <<>>
    /\ yaml' = yaml

\* if (!r.hasMore) break; offset = r.nextOffset;
\* (a result without the field reads as undefined, which is falsy)
More(r) == "hasMore" \in DOMAIN r /\ r.hasMore

Follow ==
    /\ window # <<>>
    /\ More(window[1])
    /\ offset' = window[1].nextOffset
    /\ window' = <<>>
    /\ UNCHANGED <<yaml, chunks>>

----------------------------------------------------------------------------
(***************************************************************************)
(* PART VI : ensureBrowser and POST /stop                                  *)
(*                                                                         *)
(* The callers of ensureBrowser (the pre-launch of the listen callback,    *)
(* GET /health, POST /start, getSession) and of POST /stop, each suspended *)
(* at its awaits.                                                          *)
(***************************************************************************)

\* Calls of ensureBrowser and of POST /stop in a behaviour.
MaxCallers == 3

Callers == 1..MaxCallers

VARIABLES
    browser,    \* let browser: the instance it holds (0: null)
    live,       \* the instances launched and not closed
    launches,   \* how many instances firefox.launch has returned
    eb          \* per caller: where it stands and the instance at hand

browserVars == <<browser, live, launches, eb>>

IdleCaller == [pc |-> "idle", kind |-> "-", got |-> 0]

BrowserInit ==
    /\ browser = 0
    /\ live = {}
    /\ launches = 0
    /\ eb = [c \in Callers |-> IdleCaller]

\* A new call takes the lowest free caller.
FreeCaller(c) == eb[c].pc = "idle" /\ \A d \in Callers : d < c => eb[d].pc # "idle"

\* ensureBrowser(): if (!browser) { ... await launchOptions({...})
EnsureBrowserEntry(c) ==
    /\ FreeCaller(c)
    /\ eb' = [eb EXCEPT ![c] = IF browser # 0
                               THEN [pc |-> "done", kind |-> "ensure", got |-> browser]
                               ELSE [pc |-> "options", kind |-> "ensure", got |-> 0]]
    /\ UNCHANGED <<browser, live, launches>>

\* launchOptions has answered: browser = await firefox.launch(options)
LaunchOptions(c, ok) ==
    /\ eb[c].pc = "options"
    /\ eb' = [eb EXCEPT ![c].pc = IF ok THEN "launch" ELSE "failed"]
    /\ UNCHANGED <<browser, live, launches>>

\* firefox.launch has answered: the instance is stored and returned.
Launch(c, ok) ==
    /\ eb[c].pc = "launch"
    /\ IF ok
       THEN /\ launches' = launches + 1
            /\ live' = live \cup {launches + 1}
            /\ browser' = launches + 1
            /\ eb' = [eb EXCEPT ![c] = [pc |-> "done", kind |-> "ensure",
                                        got |-> launches + 1]]
       ELSE /\ eb' = [eb EXCEPT ![c].pc = "failed"]
            /\ UNCHANGED <<browser, live, launches>>

\* POST /stop with the admin key: if (browser) { await browser.close()...
StopEntry(c) ==
    /\ FreeCaller(c)
    /\ eb' = [eb EXCEPT ![c] = IF browser # 0
                               THEN [pc |-> "closing", kind |-> "stop", got |-> browser]
                               ELSE [pc |-> "done", kind |-> "stop", got |-> 0]]
    /\ UNCHANGED <<browser, live, launches>>

\* browser.close().catch(() => {}) has answered: browser = null
StopClose(c) ==
    /\ eb[c].pc = "closing"
    /\ live' = live \ {eb[c].got}
    /\ browser' = 0
    /\ eb' = [eb EXCEPT ![c].pc = "done"]
    /\ launches' = launches

----------------------------------------------------------------------------
(***************************************************************************)
(* Specifications                                                          *)
(***************************************************************************)

\* The parts that stand alone.
partVars == <<refVars, snapVars, winVars, cookieVars, browserVars>>

\* What the route handlers never write.
otherVars == <<timeVars, partVars>>

restVars == <<regVars, otherVars>>

vars == <<tabLocks, lockOnlyVars, regVars, otherVars>>

\* No page has a tree yet and no text is windowed.
Init == LockInit /\ RegInit /\ RefInit /\ BrowserInit /\ WinInit({<<>>}, {0}) /\ SnapInit({<<>>})

\* Every tree text is the tree of the page.
InitSnap ==
    LockInit /\ RegInit /\ RefInit /\ BrowserInit /\ WinInit({<<>>}, {0}) /\ SnapInit(TextsUpTo(MaxLines))

\* Every text and offset is handed to windowSnapshot.
InitWin ==
    /\ LockInit /\ RegInit /\ RefInit /\ BrowserInit /\ SnapInit({<<>>})
    /\ WinInit(Texts(TextLens), Offsets)

\* A request arrives while other handlers may be suspended; the requests of
\* a behaviour are counted.
Call(A) ==
    calls < MaxCalls /\ calls' = calls + 1 /\ A /\ UNCHANGED <<lockOnlyVars, otherVars>>

\* A request arrives when no handler is in progress (one client at a time).
SeqCall(A) == AllIdle /\ A /\ UNCHANGED <<calls, lockOnlyVars, otherVars>>

\* A suspended handler resumes.
Step(A) == A /\ UNCHANGED <<calls, lockOnlyVars, otherVars>>

\* Handlers interleave at their awaits: the requests that change the
\* registry, with every input.
Next ==
    \/ \E r \in Reqs, u \in Users, k \in GroupKeys, url \in Urls :
          Call(CreateTabEntry(r, u, k, url, TRUE))
    \/ \E r \in Reqs : Call(CreateTabEntry(r, "A", "g1", "none", FALSE))
    \/ \E r \in Reqs, u \in Users, url \in Urls : Call(OpenTabEntry(r, u, url, TRUE))
    \/ \E r \in Reqs : Call(OpenTabEntry(r, "A", "ok", FALSE))
    \/ \E r \in Reqs, u \in Users, t \in TabIds : Call(DeleteTabEntry(r, u, t))
    \/ \E r \in Reqs, u \in Users, k \in GroupKeys : Call(DeleteGroupEntry(r, u, k))
    \/ \E r \in Reqs, u \in Users : Call(CloseSessionEntry(r, u))
    \/ \E r \in Reqs, u \in Users, t \in TabIds, f \in BOOLEAN :
          Call(TabOpEntry(r, u, t, "act_close", f))
    \/ \E r \in Reqs, ok \in BOOLEAN : Step(GsContext(r, ok))
    \/ \E r \in Reqs, ok \in BOOLEAN : Step(NewPage(r, ok))
    \/ \E r \in Reqs, ok \in BOOLEAN : Step(Goto(r, ok))
    \/ \E r \in Reqs, ok \in BOOLEAN : Step(DtClose(r, ok))
    \/ \E r \in Reqs : Step(DgClose(r))
    \/ \E r \in Reqs, ok \in BOOLEAN : Step(CsClose(r, ok))
    \/ \E r \in Reqs, ok \in BOOLEAN : Step(TabOpDone(r, ok))

Spec == Init /\ [][Next]_vars

\* One client at a time: the routes that open and close tabs, groups and
\* sessions, with every input.
SeqNext ==
    \/ \E r \in Reqs, u \in Users, k \in GroupKeys, url \in Urls :
          SeqCall(CreateTabEntry(r, u, k, url, TRUE))
    \/ \E r \in Reqs : SeqCall(CreateTabEntry(r, "A", "g1", "none", FALSE))
    \/ \E r \in Reqs, u \in Users, url \in Urls : SeqCall(OpenTabEntry(r, u, url, TRUE))
    \/ \E r \in Reqs : SeqCall(OpenTabEntry(r, "A", "ok", FALSE))
    \/ \E r \in Reqs, u \in Users, t \in TabIds : SeqCall(DeleteTabEntry(r, u, t))
    \/ \E r \in Reqs, u \in Users, k \in GroupKeys : SeqCall(DeleteGroupEntry(r, u, k))
    \/ \E r \in Reqs, u \in Users : SeqCall(CloseSessionEntry(r, u))
    \/ \E r \in Reqs, ok \in BOOLEAN : Step(GsContext(r, ok))
    \/ \E r \in Reqs, ok \in BOOLEAN : Step(NewPage(r, ok))
    \/ \E r \in Reqs, ok \in BOOLEAN : Step(Goto(r, ok))
    \/ \E r \in Reqs, ok \in BOOLEAN : Step(DtClose(r, ok))
    \/ \E r \in Reqs : Step(DgClose(r))
    \/ \E r \in Reqs, ok \in BOOLEAN : Step(CsClose(r, ok))

SpecSeq == Init /\ [][SeqNext]_vars

\* The requests of one tenant on one group key.
MaxCloseCalls == 4

\* One tenant opens tabs under one key and closes them, one by one or the
\* group at once, the handlers interleaving at their awaits.
CloseNext ==
    \/ \E r \in Reqs :
          /\ calls < MaxCloseCalls /\ calls' = calls + 1
          /\ CreateTabEntry(r, "A", "default", "none", TRUE)
          /\ UNCHANGED <<lockOnlyVars, otherVars>>
    \/ \E r \in Reqs, t \in TabIds :
          /\ calls < MaxCloseCalls /\ calls' = calls + 1
          /\ DeleteTabEntry(r, "A", t)
          /\ UNCHANGED <<lockOnlyVars, otherVars>>
    \/ \E r \in Reqs :
          /\ calls < MaxCloseCalls /\ calls' = calls + 1
          /\ DeleteGroupEntry(r, "A", "default")
          /\ UNCHANGED <<lockOnlyVars, otherVars>>
    \/ \E r \in Reqs, ok \in BOOLEAN : Step(GsContext(r, ok))
    \/ \E r \in Reqs, ok \in BOOLEAN : Step(NewPage(r, ok))
    \/ \E r \in Reqs, ok \in BOOLEAN : Step(DtClose(r, ok))
    \/ \E r \in Reqs : Step(DgClose(r))

SpecClose == Init /\ [][CloseNext]_vars

\* The tenants whose tabs the per-tab operations are tried on.
Owners == {"A", "B"}

\* The requests the routes make of a tenant with or without a session: tab
\* creation and cookie import, and the routes that look the session up.
LazyOps == {"navigate", "snapshot", "click", "type", "stats"}

LazyNext ==
    \/ \E r \in Reqs, u \in Owners : Call(CreateTabEntry(r, u, "default", "none", TRUE))
    \/ \E r \in Reqs, u \in Owners : Call(OpenTabEntry(r, u, "ok", TRUE))
    \/ \E r \in Reqs, u \in Owners :
          Call(CookieImportEntry(r, u, TRUE, "key", "array", <<"ok">>))
    \/ \E r \in Reqs, u \in Owners, t \in TabIds, op \in LazyOps, f \in BOOLEAN :
          Call(TabOpEntry(r, u, t, op, f))
    \/ \E r \in Reqs, u \in Owners : Call(ListTabsEntry(r, u))
    \/ \E r \in Reqs, u \in Owners, t \in TabIds : Call(DeleteTabEntry(r, u, t))
    \/ \E r \in Reqs, u \in Owners : Call(DeleteGroupEntry(r, u, "default"))
    \/ \E r \in Reqs, u \in Owners : Call(CloseSessionEntry(r, u))
    \/ \E r \in Reqs, ok \in BOOLEAN : Step(GsContext(r, ok))
    \/ \E r \in Reqs, ok \in BOOLEAN : Step(NewPage(r, ok))
    \/ \E r \in Reqs, ok \in BOOLEAN : Step(Goto(r, ok))
    \/ \E r \in Reqs, ok \in BOOLEAN :
          /\ AddCookies(r, ok)
          /\ UNCHANGED <<calls, lockOnlyVars, timeVars, refVars, snapVars, winVars, browserVars>>
    \/ \E r \in Reqs, ok \in BOOLEAN : Step(TabOpDone(r, ok))
    \/ \E r \in Reqs, ok \in BOOLEAN : Step(DtClose(r, ok))
    \/ \E r \in Reqs : Step(DgClose(r))
    \/ \E r \in Reqs, ok \in BOOLEAN : Step(CsClose(r, ok))

SpecLazy == Init /\ [][LazyNext]_vars

\* Cookie imports for the owners, the handlers interleaving at their
\* awaits.
CookieNext ==
    \/ \E r \in Reqs, u \in Owners, q \in CookieRequests :
          Call(CookieImportEntry(r, u, q.apiKey, q.auth, q.body, q.cookies))
    \/ \E r \in Reqs, ok \in BOOLEAN : Step(GsContext(r, ok))
    \/ \E r \in Reqs, ok \in BOOLEAN :
          /\ AddCookies(r, ok)
          /\ UNCHANGED <<calls, lockOnlyVars, timeVars, refVars, snapVars, winVars, browserVars>>

SpecCookie == Init /\ [][CookieNext]_vars

\* One client at a time: tabs are opened for the owners, and each of them
\* tries every per-tab operation on every tab id, its own, the other's and
\* those no tab has.
OpsNext ==
    \/ \E r \in Reqs, u \in Owners, k \in GroupKeys :
          SeqCall(CreateTabEntry(r, u, k, "none", TRUE))
    \/ \E r \in Reqs, u \in Owners, t \in TabIds, op \in TabOps :
          \E f \in (IF ValidatesFirst(op) \/ ValidatesAfter(op) THEN BOOLEAN ELSE {TRUE}) :
             SeqCall(TabOpEntry(r, u, t, op, f))
    \/ \E r \in Reqs, ok \in BOOLEAN : Step(GsContext(r, ok))
    \/ \E r \in Reqs, ok \in BOOLEAN : Step(NewPage(r, ok))
    \/ \E r \in Reqs, ok \in BOOLEAN : Step(TabOpDone(r, ok))

SpecOps == Init /\ [][OpsNext]_vars

\* The timer fires or time passes.
Env(A) == A /\ UNCHANGED <<calls, lockOnlyVars, partVars>>

\* Sessions over time: the owners open tabs, use them and close their
\* sessions while the clock advances and the idle sweep runs.
LifeNext ==
    \/ \E r \in Reqs, u \in Owners : Call(CreateTabEntry(r, u, "default", "none", TRUE))
    \/ \E r \in Reqs, u \in Owners : Call(CloseSessionEntry(r, u))
    \/ \E r \in Reqs, u \in Owners, t \in TabIds, op \in {"stats", "navigate"} :
          Call(TabOpEntry(r, u, t, op, TRUE))
    \/ \E r \in Reqs, ok \in BOOLEAN : Step(GsContext(r, ok))
    \/ \E r \in Reqs, ok \in BOOLEAN : Step(NewPage(r, ok))
    \/ \E r \in Reqs, ok \in BOOLEAN : Step(CsClose(r, ok))
    \/ \E r \in Reqs, ok \in BOOLEAN : Step(TabOpDone(r, ok))
    \/ Env(Tick)
    \/ \E fails \in SUBSET SessIds : Env(SweepIdle(fails))

SpecLife == Init /\ [][LifeNext]_vars

\* One tenant uses its tabs and destroys them: per-tab operations, the
\* closing of tabs, groups and the session, and the idle sweep, all
\* interleaved.
TabsNext ==
    \/ \E r \in Reqs : Call(CreateTabEntry(r, "A", "default", "none", TRUE))
    \/ \E r \in Reqs, t \in TabIds, op \in {"navigate", "snapshot", "act_close"} :
          Call(TabOpEntry(r, "A", t, op, TRUE))
    \/ \E r \in Reqs, t \in TabIds : Call(DeleteTabEntry(r, "A", t))
    \/ \E r \in Reqs : Call(DeleteGroupEntry(r, "A", "default"))
    \/ \E r \in Reqs : Call(CloseSessionEntry(r, "A"))
    \/ \E r \in Reqs, ok \in BOOLEAN : Step(GsContext(r, ok))
    \/ \E r \in Reqs, ok \in BOOLEAN : Step(NewPage(r, ok))
    \/ \E r \in Reqs, ok \in BOOLEAN : Step(TabOpDone(r, ok))
    \/ \E r \in Reqs, ok \in BOOLEAN : Step(DtClose(r, ok))
    \/ \E r \in Reqs : Step(DgClose(r))
    \/ \E r \in Reqs, ok \in BOOLEAN : Step(CsClose(r, ok))
    \/ Env(Tick)
    \/ \E fails \in SUBSET SessIds : Env(SweepIdle(fails))

SpecTabs == Init /\ [][TabsNext]_vars

\* The routes that load a url, with every url: tab creations of one tenant
\* and navigations of its tabs, interleaved.
UrlNext ==
    \/ \E r \in Reqs, url \in Urls : Call(CreateTabEntry(r, "A", "default", url, TRUE))
    \/ \E r \in Reqs, url \in Urls : Call(OpenTabEntry(r, "A", url, TRUE))
    \/ \E r \in Reqs, t \in TabIds, op \in NavOps, url \in Urls, f \in BOOLEAN :
          Call(TabOpCall(r, "A", t, op, url, f))
    \/ \E r \in Reqs, ok \in BOOLEAN : Step(GsContext(r, ok))
    \/ \E r \in Reqs, ok \in BOOLEAN : Step(NewPage(r, ok))
    \/ \E r \in Reqs, ok \in BOOLEAN : Step(Goto(r, ok))
    \/ \E r \in Reqs, ok \in BOOLEAN : Step(TabOpDone(r, ok))

SpecUrl == Init /\ [][UrlNext]_vars

\* One tab: every operation with every ref and every answer of the engine.
RefNext ==
    \/ \E kind \in RefKinds, ref \in RefArgs, sel, actOk, moved, buildOk \in BOOLEAN,
          n \in 0..MaxNodes :
          /\ ElementOp(kind, ref, sel, actOk, moved, buildOk, n)
          /\ UNCHANGED <<tabLocks, lockOnlyVars, regVars, timeVars, cookieVars, browserVars, snapVars, winVars>>
    \/ \E kind \in PageKinds \cup {"snapshot"}, actOk, moved, buildOk \in BOOLEAN,
          n \in 0..MaxNodes :
          /\ PageOp(kind, actOk, moved, buildOk, n)
          /\ UNCHANGED <<tabLocks, lockOnlyVars, regVars, timeVars, cookieVars, browserVars, snapVars, winVars>>

SpecRefs == Init /\ [][RefNext]_vars

\* Snapshots of a page whose tree does not change: the two passes, again
\* and again, on every tree text.
SnapNext ==
    \/ BuildPass /\ UNCHANGED <<tabLocks, lockOnlyVars, regVars, timeVars, cookieVars, browserVars, refVars, winVars>>
    \/ AnnotatePass
         /\ UNCHANGED <<tabLocks, lockOnlyVars, regVars, timeVars, cookieVars, browserVars, refVars, winVars>>

SpecSnap == InitSnap /\ [][SnapNext]_vars

\* Snapshots taken through the alias GET /snapshot of a page whose tree does
\* not change.
AliasNext ==
    \/ BuildPass /\ UNCHANGED <<tabLocks, lockOnlyVars, regVars, timeVars, cookieVars, browserVars, refVars, winVars>>
    \/ AliasAnnotatePass
         /\ UNCHANGED <<tabLocks, lockOnlyVars, regVars, timeVars, cookieVars, browserVars, refVars, winVars>>

SpecAlias == InitSnap /\ [][AliasNext]_vars

\* ensureBrowser and POST /stop, the calls interleaving at their awaits.
BrowserNext ==
    \/ \E c \in Callers : EnsureBrowserEntry(c) /\ UNCHANGED <<tabLocks, lockOnlyVars, regVars, timeVars, cookieVars, refVars, snapVars, winVars>>
    \/ \E c \in Callers, ok \in BOOLEAN :
          LaunchOptions(c, ok) /\ UNCHANGED <<tabLocks, lockOnlyVars, regVars, timeVars, cookieVars, refVars, snapVars, winVars>>
    \/ \E c \in Callers, ok \in BOOLEAN :
          Launch(c, ok) /\ UNCHANGED <<tabLocks, lockOnlyVars, regVars, timeVars, cookieVars, refVars, snapVars, winVars>>
    \/ \E c \in Callers : StopEntry(c) /\ UNCHANGED <<tabLocks, lockOnlyVars, regVars, timeVars, cookieVars, refVars, snapVars, winVars>>
    \/ \E c \in Callers : StopClose(c) /\ UNCHANGED <<tabLocks, lockOnlyVars, regVars, timeVars, cookieVars, refVars, snapVars, winVars>>

SpecBrowser == Init /\ [][BrowserNext]_vars

\* windowSnapshot on every text and offset.
WinNext ==
    \/ Window /\ UNCHANGED <<tabLocks, lockOnlyVars, regVars, timeVars, cookieVars, browserVars, refVars, snapVars>>
    \/ \E o \in Offsets :
          Seek(o) /\ UNCHANGED <<tabLocks, lockOnlyVars, regVars, timeVars, cookieVars, browserVars, refVars, snapVars>>

SpecWin == InitWin /\ [][WinNext]_vars

\* A caller reads a text longer than the limit from offset 0, following
\* nextOffset while hasMore is true; the loop keeps running.
InitIter ==
    /\ LockInit /\ RegInit /\ RefInit /\ BrowserInit /\ SnapInit({<<>>})
    /\ WinInit(Texts((MAX_SNAPSHOT_CHARS + 1)..MaxText), {0})

IterNext ==
    \/ Window /\ UNCHANGED <<tabLocks, lockOnlyVars, regVars, timeVars, cookieVars, browserVars, refVars, snapVars>>
    \/ Follow /\ UNCHANGED <<tabLocks, lockOnlyVars, regVars, timeVars, cookieVars, browserVars, refVars, snapVars>>

SpecIter == InitIter /\ [][IterNext]_vars /\ WF_vars(IterNext)

\* withTabLock alone: calls submitted for the tabs T and U.
LockNext ==
    \/ \E t \in LockTabs : Submit(t) /\ UNCHANGED restVars
    \/ \E i \in Ops, o \in {"ok", "fail"} : Settle(i, o) /\ UNCHANGED restVars
    \/ \E i \in Ops : Finally(i) /\ UNCHANGED restVars
    \/ \E i \in Ops : Resume(i) /\ UNCHANGED restVars

SpecLock == Init /\ [][LockNext]_vars

\* Every engine call carries a timeout, so every operation ends; the job
\* queue is drained before the event loop takes the next event.
FairSpecLock ==
    /\ SpecLock
    /\ \A i \in Ops : WF_vars(\E o \in {"ok", "fail"} : Settle(i, o) /\ UNCHANGED restVars)
    /\ \A i \in Ops : WF_vars(Finally(i) /\ UNCHANGED restVars)
    /\ \A i \in Ops : WF_vars(Resume(i) /\ UNCHANGED restVars)

Executing(i) == opPc[i] = "running"

\* position of call i in `started` (0: not started)
RECURSIVE IndexIn(_, _, _)
IndexIn(s, x, k) ==
    IF k > Len(s) THEN 0 ELSE IF s[k] = x THEN k ELSE IndexIn(s, x, k + 1)

StartIndex(i) == IndexIn(started, i, 1)

(***************************************************************************)
(* Claims about withTabLock                                                *)
(***************************************************************************)

\* C1: for any number of calls submitted for one tabId, no two operation
\* bodies are ever executing at once, and the bodies start in submission
\* order (call ids are submission order).
C1_SerialInSubmissionOrder ==
    /\ \A i, j \in Ops :
          (i # j /\ opTab[i] = opTab[j] /\ Executing(i)) => ~Executing(j)
    /\ \A i, j \in Ops :
          (i < j /\ opTab[i] = opTab[j] /\ bodyRan[i] /\ bodyRan[j])
             => StartIndex(i) < StartIndex(j)

\* C2: a call for tab T never waits on the promise of a call for another
\* tab U, so a call on U that never completes cannot delay a call on T: a
\* call that is suspended at `await pending` awaits a call of its own tab.
C2_NoCrossTabWait ==
    \A i \in Ops :
        opPc[i] = "waiting" => (waitsOn[i] # NoOp /\ opTab[waitsOn[i]] = opTab[i])

\* a call on U is still in flight while a call on T submitted after it has
\* run to completion
C2_Witness ==
    \E a, b \in Ops :
        /\ a < b
        /\ opTab[a] = U /\ opPc[a] = "running"
        /\ opTab[b] = T /\ opPc[b] = "done" /\ bodyRan[b]

\* C3: a failing operation fails only its own caller: every call that has
\* returned ran its own operation and delivered that operation's outcome,
\* and every call waiting on the tab (whatever the outcome of the call it
\* waits for) goes on to run and return.
C3_FailureDoesNotPoison ==
    /\ [](\A i \in Ops : opPc[i] = "done" => (bodyRan[i] /\ result[i] = outcome[i]))
    /\ \A i \in Ops : (opPc[i] = "waiting") ~> (opPc[i] = "done")

\* a call waited on a call that failed, then ran and returned its own success
C3_Witness ==
    \E a, b \in Ops :
        /\ waitsOn[b] = a /\ outcome[a] = "fail" /\ result[a] = "fail"
        /\ opPc[b] = "done" /\ bodyRan[b] /\ result[b] = "ok"

(***************************************************************************)
(* Claims about the session registry and the tab groups                    *)
(***************************************************************************)

\* The session objects the registry holds.
Registered == {sessions[u] : u \in Users} \ {0}

\* The tab ids the groups of session object s map.
TabsOfSession(s) ==
    UNION {groupTabs[sessGroups[s][k]] : k \in {j \in GroupKeys : sessGroups[s][j] # 0}}

\* Tab t is a tab of tenant u.
Owns(u, t) == sessions[u] # 0 /\ t \in TabsOfSession(sessions[u])

\* Every tab id some tab-group object maps.
AllTabs == UNION {groupTabs[g] : g \in GroupIds}

registry == <<sessions, sessCtx, sessGroups, groupTabs, tabState, nextTab, tabLocks>>

\* C4: in every reachable state, whatever the interleaving of getSession
\* calls, the registry holds at most one session per tenant (no session
\* object is stored under two tenants) and at most MAX_SESSIONS sessions.
C4_SessionBounds ==
    /\ \A u, v \in Users : (u # v /\ sessions[u] # 0) => sessions[u] # sessions[v]
    /\ SessionCount <= MAX_SESSIONS

\* C5: in every reachable state, whatever the interleaving of tab-creation
\* requests, the tabs of a session summed over its groups do not exceed
\* MAX_TABS_PER_SESSION.
C5_TabQuota ==
    \A s \in Registered : TotalTabs(sessGroups[s]) <= MAX_TABS_PER_SESSION

C9_NoEmptyGroup ==
    AllIdle => \A s \in Registered, k \in GroupKeys :
                  sessGroups[s][k] # 0 => groupTabs[sessGroups[s][k]] # {}

\* What a step that takes a request of tenant u into slot r leaves in the
\* slot: nothing when it has answered, a frame of u when it is suspended.
Leaves(r, kinds, u) ==
    req'[r].pc = "idle" \/ (req'[r].kind \in kinds /\ req'[r].user = u)

\* The number of tabs tenant u has.
Tabs(u) == IF sessions[u] = 0 THEN 0 ELSE Cardinality(TabsOfSession(sessions[u]))

\* Tenant u has a session and no other tenant has one.
OnlyTenant(u) == sessions[u] # 0 /\ \A v \in Users \ {u} : sessions[v] = 0

\* C6: one tenant, one request at a time. A creation request (POST /tabs,
\* POST /tabs/open) of the tenant when its session holds
\* MAX_TABS_PER_SESSION tabs is answered 429 and changes nothing, one when
\* it holds fewer goes on to open a page; the page opened, the tenant has
\* one tab more, and never more than MAX_TABS_PER_SESSION; a tab closed, the
\* tenant has one tab less. Hence MAX_TABS_PER_SESSION creations succeed,
\* the next is refused, and each closed tab admits exactly one more.
C6_QuotaSequence ==
    /\ [](\A u \in Users : Tabs(u) <= MAX_TABS_PER_SESSION)
    /\ [][\A r \in Reqs, u \in Users :
            (FreeSlot(r) /\ OnlyTenant(u) /\ Leaves(r, {"create", "open"}, u))
               => \A k \in GroupKeys, url \in Urls :
                     (\/ CreateTabEntry(r, u, k, url, TRUE)
                      \/ OpenTabEntry(r, u, "ok", TRUE))
                        => IF Tabs(u) >= MAX_TABS_PER_SESSION
                           THEN resp' = 429 /\ req' = req /\ UNCHANGED registry
                           ELSE req'[r].pc = "newpage"]_vars
    /\ [][\A r \in Reqs, u \in Users :
            (req[r].pc = "newpage" /\ req[r].user = u /\ NewPage(r, TRUE))
               => (Tabs(u)' = Tabs(u) + 1 /\ resp' # 429 /\ resp' # 500)]_vars
    /\ [][\A r \in Reqs, u \in Users :
            (req[r].pc = "dt_close" /\ req[r].user = u /\ DtClose(r, TRUE))
               => (Tabs(u)' = Tabs(u) - 1 /\ resp' = 200)]_vars

\* a single tenant was refused with its session full, after three tab ids
\* were handed out: MAX_TABS_PER_SESSION creations, a close, one more creation
C6_Witness ==
    /\ AllIdle /\ resp = 429
    /\ nextTab = MAX_TABS_PER_SESSION + 1
    /\ \E u \in Users : OnlyTenant(u) /\ Tabs(u) = MAX_TABS_PER_SESSION

\* The step answers 404 and does nothing else: no handler stays in progress
\* and the registry, every TabState (refs, visitedUrls, toolCalls) and the
\* lock map are as before.
NotFoundOnly == resp' = 404 /\ req' = req /\ UNCHANGED registry

\* C7: for every per-tab operation op, whenever tenant u may send a request
\* that names a tab id t u does not own, be it a tab of another tenant or a
\* tab id that exists nowhere, the handler takes the request and its only
\* possible outcome is the answer 404 with nothing else changed: the same
\* outcome in both cases, no data of the tab, the tab's state as before.
C7_TenantIsolation ==
    AllIdle =>
       \A u \in Users, t \in TabIds :
          ~Owns(u, t) =>
             \A r \in Reqs, op \in TabOps :
                FreeSlot(r) =>
                   /\ ENABLED TabOpEntry(r, u, t, op, TRUE)
                   /\ ~ENABLED (TabOpEntry(r, u, t, op, TRUE) /\ ~NotFoundOnly)

\* every tab id is a live tab of A or of B, a tab of each has been operated
\* on, and the last request was answered 404
C7_Witness ==
    /\ AllIdle /\ resp = 404
    /\ \A t \in TabIds : Owns("A", t) \/ Owns("B", t)
    /\ \E t \in TabIds : Owns("A", t) /\ tabState[t].toolCalls = 1 /\ tabState[t].refs = 1
    /\ \E t \in TabIds : Owns("B", t) /\ tabState[t].toolCalls = 1

----------------------------------------------------------------------------
(***************************************************************************)
(* Claims about the life of a session                                      *)
(***************************************************************************)

\* C11: the browsing context of a session is closed exactly once, also when
\* two session-close requests, or a session-close request and the idle
\* sweep, overlap: while a handler awaits context.close() of a session, no
\* other handler awaits a close() of the same context and the context has
\* not been closed by anyone else.
C11_ContextClosedOnce ==
    \A r \in Reqs :
       req[r].pc = "cs_close" =>
          /\ sessCtx[req[r].sess] = "open"
          /\ \A q \in Reqs \ {r} : ~(req[q].pc = "cs_close" /\ req[q].sess = req[r].sess)

\* C12: a run of the idle sweep at time now removes exactly the sessions
\* with now - lastAccess > SESSION_TIMEOUT_MS and starts the release of the
\* context of each of them; the other sessions stay; and this is so
\* whichever of the releases fail.
C12_SweepRemovesExpired ==
    [][\A fails \in SUBSET SessIds :
          SweepIdle(fails) =>
             LET idle == {u \in Users : /\ sessions[u] # 0
                                        /\ now - lastAccess[sessions[u]] > SESSION_TIMEOUT_MS}
             IN  /\ \A u \in idle : sessions'[u] = 0
                 /\ \A u \in Users \ idle : sessions'[u] = sessions[u]
                 /\ swept' = {sessions[u] : u \in idle}]_vars

\* A sweep has removed an idle session and has kept a session that was in
\* use more recently.
C12_Witness ==
    /\ swept # {}
    /\ \E v \in Users : /\ sessions[v] # 0
                        /\ 0 < lastAccess[sessions[v]]
                        /\ lastAccess[sessions[v]] < now
                        /\ ~Expired(sessions[v])

\* C13: a session is expired only after SESSION_TIMEOUT_MS of inactivity:
\* when its tenant has just made a request on one of its tabs, the session
\* is not one the idle sweep removes.
C13_ActiveNotExpired ==
    [][\A r \in Reqs, u \in Users, t \in TabIds, op \in TabOps :
          (FreeSlot(r) /\ Owns(u, t) /\ TabOpEntry(r, u, t, op, TRUE))
             => (sessions'[u] # 0 /\ ~Expired(sessions[u])')]_vars

----------------------------------------------------------------------------
(***************************************************************************)
(* Claims about rejected tab creations                                     *)
(***************************************************************************)

\* C14: with MAX_SESSIONS sessions registered, a tab creation for a tenant
\* without a session is answered 429 and changes nothing; a tenant that has
\* a session is still served (its request is not refused for the session
\* limit).
C14_SessionCapRejects ==
    [][\A r \in Reqs, u \in Users :
          (FreeSlot(r) /\ SessionCount >= MAX_SESSIONS /\ Leaves(r, {"create", "open"}, u))
             => \A k \in GroupKeys, url \in Urls :
                  (CreateTabEntry(r, u, k, url, TRUE) \/ OpenTabEntry(r, u, "ok", TRUE))
                     => IF sessions[u] = 0
                        THEN resp' = 429 /\ req' = req /\ UNCHANGED registry
                        ELSE resp' # 500]_vars

\* C15: a tab creation answered 400 (missing field, url that validateUrl
\* rejects) leaves the registry as it was: no tab, page or group added.
C15_InvalidInputNoMutation ==
    [][resp' = 400 => UNCHANGED registry]_vars

----------------------------------------------------------------------------
(***************************************************************************)
(* Claims about urls                                                       *)
(***************************************************************************)

\* The handler in slot r has called page.goto with the url of its request
\* (POST /tabs, POST /tabs/open) or has entered the operation that calls it
\* (navigate, POST /navigate).
GotoCalled(r) ==
    \/ req[r].pc = "goto"
    \/ req[r].pc = "op_run" /\ req[r].kind \in NavOps

\* C16: on each of the four routes that load a url, page.goto is only ever
\* called with a url that validateUrl accepted (scheme http or https).
C16_GotoOnlyValidated ==
    \A r \in Reqs : GotoCalled(r) => req[r].url = "ok"

\* A tab is being opened on a url while a POST /navigate loads a url on
\* another tab.
C16_Witness ==
    \E r, q \in Reqs :
       /\ req[r].pc = "op_run" /\ req[r].kind = "nav_alias" /\ req[r].url = "ok"
       /\ req[q].pc = "goto" /\ req[q].url = "ok"

----------------------------------------------------------------------------
(***************************************************************************)
(* Claims about the reference table                                        *)
(***************************************************************************)

\* C17: after a successful navigate, click, back, forward or refresh every
\* entry of the tab's reference table was built from the document the page
\* shows after the operation; after a failed one the table is the one that
\* was there before the request.
C17_RefsReplacedOrKept ==
    [][reply'.kind \in PageKinds \cup {"click", "act_click"} =>
          IF reply'.status = 200
          THEN \A i \in DOMAIN refs' : refs'[i] = page'
          ELSE refs' = refs]_vars

\* A click by ref has succeeded on the second document or a later one and
\* has left a table with entries.
C17_Witness ==
    /\ reply.kind = "click" /\ reply.status = 200 /\ reply.ref # 0
    /\ page >= 2
    /\ Len(refs) >= 1

\* C19: a click, type, hover or scroll-into-view naming a ref that the
\* reference table does not hold fails, calls no engine action, leaves table
\* and page alone, and its message tells the caller to fetch a snapshot.
C19_UnknownRefRejected ==
    [][(reply'.kind \in RefKinds /\ reply'.ref # 0 /\ reply'.ref \notin DOMAIN refs) =>
          /\ reply'.status = 500
          /\ reply'.acted = FALSE
          /\ refs' = refs
          /\ page' = page
          /\ reply'.error = "unknown_ref_call_snapshot"]_vars

\* The lines the passes are to give a ref: interactive role, name not skipped.
Eligible(l) == toLowerCase(l.role) \in INTERACTIVE_ROLES /\ ~Skipped(l.name)

\* The line j is the Rank-th eligible line; Occurrence eligible lines of
\* the same role and name come before it.
Rank(j) == Cardinality({i \in 1..j : Eligible(tree[i])})
Occurrence(j) ==
    Cardinality({i \in 1..(j - 1) : /\ Eligible(tree[i])
                                    /\ toLowerCase(tree[i].role) = toLowerCase(tree[j].role)
                                    /\ tree[i].name = tree[j].name})

\* Line j carries the ref id e_k and the entry of e_k is the line's role,
\* name and occurrence.
AnchoredAt(j, k) ==
    /\ k \in DOMAIN treeRefs
    /\ annotated[j] = k
    /\ treeRefs[k] = [role |-> toLowerCase(tree[j].role), name |-> tree[j].name,
                     nth |-> Occurrence(j)]

\* The two passes give again what they gave.
Repeatable ==
    /\ treeRefs = BuildFrom(tree, 1, <<>>)
    /\ annotated = AnnotateLines(tree, treeRefs)

\* C18 as stated: after the two passes on an unchanged tree, the k-th
\* eligible line carries the ref id whose entry is the line's role, name and
\* occurrence, no other line carries a ref id, and the passes are repeatable.
C18_EveryEligibleLineAnchored ==
    snapPc = "done" =>
       /\ \A j \in 1..Len(tree) :
             IF Eligible(tree[j]) THEN AnchoredAt(j, Rank(j)) ELSE annotated[j] = 0
       /\ Repeatable

\* C18 with the cap of the build pass: the k-th eligible line carries e_k
\* with its own entry for k up to MAX_SNAPSHOT_NODES; the eligible lines
\* after that and the ineligible lines carry no ref id; the table has an
\* entry per eligible line up to the cap; the passes are repeatable.
C18_AnchoredUpToCap ==
    snapPc = "done" =>
       /\ \A j \in 1..Len(tree) :
             IF Eligible(tree[j]) /\ Rank(j) <= MAX_SNAPSHOT_NODES
             THEN AnchoredAt(j, Rank(j))
             ELSE annotated[j] = 0
       /\ Len(treeRefs) = MinOf(Rank(Len(tree)), MAX_SNAPSHOT_NODES)
       /\ Repeatable

\* A tree with more eligible lines than the cap, two of them of the same
\* role and name, has gone through the two passes.
C18_Witness ==
    /\ snapPc = "done"
    /\ Len(tree) = 3
    /\ \A j \in 1..3 : Eligible(tree[j])
    /\ tree[1] = tree[2]
    /\ annotated = <<1, 2, 0>>

----------------------------------------------------------------------------
(***************************************************************************)
(* Claims about windowSnapshot                                             *)
(***************************************************************************)

\* C20: for a text of at most MAX_SNAPSHOT_CHARS characters windowSnapshot
\* returns the text itself, truncated = false, totalChars = its length and
\* neither hasMore nor nextOffset.
C20_SmallTextPassesThrough ==
    (window # <<>> /\ Len(yaml) <= MAX_SNAPSHOT_CHARS) =>
       /\ window[1].text = yaml
       /\ window[1].truncated = FALSE
       /\ window[1].totalChars = Len(yaml)
       /\ "hasMore" \notin DOMAIN window[1]
       /\ "nextOffset" \notin DOMAIN window[1]

\* A text of exactly MAX_SNAPSHOT_CHARS characters has been windowed at an
\* offset other than 0.
C20_Witness ==
    /\ window # <<>>
    /\ Len(yaml) = MAX_SNAPSHOT_CHARS
    /\ offset > 0
    /\ window[1].text = yaml


\* C21: for a text longer than MAX_SNAPSHOT_CHARS and any offset, the text
\* windowSnapshot returns ends with the last SNAPSHOT_TAIL_CHARS characters
\* of the input.
C21_TailInEveryWindow ==
    (window # <<>> /\ Len(yaml) > MAX_SNAPSHOT_CHARS) =>
       LET text == window[1].text
       IN  /\ Len(text) >= SNAPSHOT_TAIL_CHARS
           /\ SubSeq(text, Len(text) - SNAPSHOT_TAIL_CHARS + 1, Len(text))
                 = SubSeq(yaml, Len(yaml) - SNAPSHOT_TAIL_CHARS + 1, Len(yaml))

\* A long text of distinct characters has been windowed at an offset past
\* its end.
C21_Witness ==
    /\ window # <<>>
    /\ yaml = DistinctText(MaxText)
    /\ offset > Len(yaml)
    /\ window[1].truncated

\* The content slice of a truncated result: what precedes marker and tail.
ContentLen(r) ==
    Len(r.text) - SNAPSHOT_TAIL_CHARS
       - (IF r.hasMore THEN Len(MoreMarker(r.nextOffset, r.totalChars)) ELSE 1)

Content(r) == SubSeq(r.text, 1, ContentLen(r))

\* The slices of the reading so far are the text from character 0 on, each
\* starting where the one before it ended.
Contiguous ==
    \A k \in 1..Len(chunks) :
       /\ chunks[k].offset = IF k = 1 THEN 0
                             ELSE chunks[k - 1].offset + ContentLen(chunks[k - 1])
       /\ Content(chunks[k])
             = SubSeq(yaml, chunks[k].offset + 1, chunks[k].offset + ContentLen(chunks[k]))

\* The reading is over: the last result says there is no more.
ReadingDone == window # <<>> /\ ~More(window[1])

\* When the reading is over the slices reach the tail boundary, so that
\* slices and tail hold every character of the text.
Covers ==
    ReadingDone =>
       window[1].offset + ContentLen(window[1]) >= Len(yaml) - SNAPSHOT_TAIL_CHARS

\* C22 as stated: reading a long text from offset 0 along nextOffset until
\* hasMore is false, the content slices are contiguous and disjoint, none of
\* them overlaps the reserved tail, and slices plus tail hold every
\* character of the text.
C22_SlicesPartitionContent ==
    /\ Contiguous
    /\ Covers
    /\ \A k \in 1..Len(chunks) :
          chunks[k].offset + ContentLen(chunks[k]) <= Len(yaml) - SNAPSHOT_TAIL_CHARS

\* C22, amended: the content slices are contiguous and disjoint, and slices
\* plus tail hold every character of the text; only a slice on which
\* hasMore is true is sure to end before the reserved tail.
C22_SlicesCoverContent ==
    /\ Contiguous
    /\ Covers
    /\ \A k \in 1..Len(chunks) :
          chunks[k].hasMore =>
             chunks[k].offset + ContentLen(chunks[k]) < Len(yaml) - SNAPSHOT_TAIL_CHARS

\* A reading of three calls or more is over, and its last slice ran into
\* the reserved tail.
C22_Witness ==
    /\ ReadingDone
    /\ Len(chunks) >= 3
    /\ yaml = DistinctText(Len(yaml))
    /\ window[1].offset + ContentLen(window[1]) > Len(yaml) - SNAPSHOT_TAIL_CHARS

\* C23: for every text and offset, the text windowSnapshot returns (content
\* slice, marker and tail) is at most MAX_SNAPSHOT_CHARS long.
C23_WindowWithinLimit ==
    window # <<>> => Len(window[1].text) <= MAX_SNAPSHOT_CHARS

\* A window with a full content slice, the marker that names the next
\* offset, and the tail.
C23_Witness ==
    /\ window # <<>>
    /\ More(window[1])
    /\ Len(window[1].text)
          = contentBudget + Len(MoreMarker(window[1].nextOffset, Len(yaml)))
               + SNAPSHOT_TAIL_CHARS

\* C24: reading from offset 0 along nextOffset ends: whenever hasMore is
\* true, nextOffset is greater than the offset that was used and less than
\* the tail boundary, and eventually a call answers with hasMore false.
C24_ReadingTerminates ==
    /\ [](window # <<>> /\ More(window[1]) =>
             /\ window[1].nextOffset > offset
             /\ window[1].nextOffset < Len(yaml) - SNAPSHOT_TAIL_CHARS)
    /\ <>ReadingDone

\* A reading has ended after three calls or more.
C24_Witness ==
    /\ ReadingDone
    /\ Len(chunks) >= 3
    /\ chunks[Len(chunks) - 1].hasMore


----------------------------------------------------------------------------
(***************************************************************************)
(* Claims about closing tabs                                               *)
(***************************************************************************)

\* C25: DELETE /tabs/:tabId is idempotent. A request that names a tab the
\* tenant does not hold (never created, closed before, or another tenant's)
\* is answered 200 and changes nothing; a request that closes the tenant's
\* own tab removes that tab and nothing else: the tenant has one tab less,
\* the other tabs of the session stay registered, and the tab's group is
\* removed exactly when the tab was its last.
C25_DeleteTabIdempotent ==
    [][\A r \in Reqs :
          /\ \A u \in Users, t \in TabIds :
                (FreeSlot(r) /\ ~Owns(u, t) /\ DeleteTabEntry(r, u, t))
                   => (resp' = 200 /\ req' = req /\ UNCHANGED registry)
          /\ \A s \in SessIds, t \in TabIds :
                (/\ req[r].pc = "dt_close" /\ req[r].sess = s /\ req[r].tab = t
                 /\ sessions[req[r].user] = s
                 /\ DtClose(r, TRUE))
                   => /\ resp' = 200
                      /\ TabsOfSession(s)' = TabsOfSession(s) \ {t}
                      /\ \A k \in GroupKeys :
                            sessGroups[s][k] # 0 =>
                               /\ groupTabs[sessGroups[s][k]] = {t} => sessGroups'[s][k] = 0
                               /\ sessGroups'[s][k] = 0 => groupTabs[sessGroups[s][k]] \subseteq {t}]_vars


----------------------------------------------------------------------------
(***************************************************************************)
(* Claims about the cookie import                                          *)
(***************************************************************************)

\* The request is one the route is to reject: no key configured, no or a
\* wrong bearer key, no cookies array, too many cookies, or a cookie that is
\* not valid.
Rejected(apiKey, auth, body, cookies) ==
    \/ ~apiKey
    \/ auth # "key"
    \/ body # "array"
    \/ Len(cookies) > MAX_COOKIES
    \/ \E i \in DOMAIN cookies : cookies[i] # "ok"

\* C26: a cookie import that is to be rejected is answered 403 or 400 before
\* anything else happens: no session is created, no cookie is added to any
\* context, and one invalid cookie is enough to reject the whole array.
C26_RejectedImportChangesNothing ==
    [][\A r \in Reqs, u \in Owners, q \in CookieRequests :
          (/\ calls' = calls + 1
           /\ FreeSlot(r)
           /\ Rejected(q.apiKey, q.auth, q.body, q.cookies)
           /\ CookieImportEntry(r, u, q.apiKey, q.auth, q.body, q.cookies))
             => /\ resp' \in {400, 403}
                /\ req' = req
                /\ jar' = jar
                /\ UNCHANGED registry]_vars

\* An import has been refused after another one had put cookies into a
\* context.
C26_Witness ==
    /\ resp = 400
    /\ AllIdle
    /\ \E s \in SessIds : jar[s] > 0


----------------------------------------------------------------------------
(***************************************************************************)
(* Claims about the tab lock and the TabState                              *)
(***************************************************************************)

\* The handler in slot r is executing an operation on tab t.
Running(r, t) == req[r].pc = "op_run" /\ req[r].tab = t

\* C27: every write to a tab's reference table happens while the tab's lock
\* is held: the handler that writes it runs under withTabLock and no other
\* operation is executing on the tab, the rebuild of a snapshot request
\* included.
C27_RefsWrittenUnderLock ==
    [][\A r \in Reqs, t \in TabIds :
          (Running(r, t) /\ RebuildsRefs(req[r].kind) /\ TabOpDone(r, TRUE))
             => /\ Locked(req[r].kind)
                /\ \A q \in Reqs \ {r} : ~Running(q, t)]_vars

\* The tab ids the groups of the registered sessions map.
RegisteredTabs == UNION {TabsOfSession(s) : s \in Registered}

\* C29: in every reachable state the lock map has no entry for a tab id
\* that is in no tab group, whichever way the tab was destroyed.
C29_NoLockWithoutTab ==
    \A t \in TabIds : tabLocks[t] # NoOp => t \in RegisteredTabs


\* Call i of withTabLock is waiting for the tab or executing on it (its
\* finally block has not run yet).
Active(i) == opPc[i] \in {"waiting", "running", "settled"}

\* C28: the finally block of a call removes the tab's entry from the lock
\* map only when the entry is the call's own promise, never the entry a
\* later call has stored; and when no call is executing or waiting for a
\* tab, the lock map holds no entry for the tab.
C28_OwnEntryOnly ==
    /\ [][\A i \in Ops :
            Finally(i) =>
               \A t \in TabIds : tabLocks[t] # i => tabLocks'[t] = tabLocks[t]]_vars
    /\ [](\A t \in TabIds :
            (\A i \in Ops : opTab[i] = t => ~Active(i)) => tabLocks[t] = NoOp)

\* Two calls waited for the same earlier call of one tab and both ran; the
\* first has finished while the entry of the tab was, and still is, the
\* promise of the second, which is still executing.
C28_Witness ==
    \E i, j \in Ops :
       /\ i < j
       /\ opTab[i] = opTab[j]
       /\ waitsOn[i] # NoOp
       /\ waitsOn[i] = waitsOn[j]
       /\ opPc[i] = "done"
       /\ result[i] = "ok"
       /\ opPc[j] = "running"
       /\ tabLocks[opTab[j]] = j


\* C30: a tab creation that is answered 500 because newPage or the first
\* navigation failed leaves nothing behind: the tab it was creating is in no
\* tab group of a registered session, and the group it would have filled is
\* not left empty in the session.
C30_NoPartialCreation ==
    [][\A r \in Reqs :
          /\ \A t \in TabIds :
                (req[r].pc = "goto" /\ req[r].tab = t /\ Goto(r, FALSE))
                   => (resp' = 500 /\ t \notin RegisteredTabs')
          /\ \A g \in GroupIds :
                (/\ req[r].pc = "newpage" /\ req[r].grp = g /\ groupTabs[g] = {}
                 /\ NewPage(r, FALSE))
                   => /\ resp' = 500
                      /\ \A x \in SessIds, k \in GroupKeys : sessGroups'[x][k] # g]_vars


----------------------------------------------------------------------------
\* C31: a navigate or click on a tab of the caller that is answered 400 for
\* a missing field leaves the tab's state (reference table, visited urls,
\* toolCalls counter) as it was before the request.
C31_RejectedOpKeepsTabState ==
    [][\A r \in Reqs, u \in Owners, t \in TabIds, op \in {"navigate", "click"} :
          (FreeSlot(r) /\ Owns(u, t) /\ TabOpEntry(r, u, t, op, FALSE))
             => (resp' = 400 /\ tabState'[t] = tabState[t])]_vars


----------------------------------------------------------------------------
\* C32: after the build pass the k-th entry of the table (ref id e_k) is the
\* k-th eligible line of the tree, with the line's lower-cased role, its
\* name and, as occurrence, the number of earlier eligible lines of the same
\* role and name; no two entries are the same (role, name, occurrence); a
\* line is eligible when its lower-cased role is interactive (combobox is
\* not) and its name matches no skip pattern.
C32_BuildNumbersEligibleLines ==
    snapPc = "built" =>
       /\ Len(treeRefs) = MinOf(Rank(Len(tree)), MAX_SNAPSHOT_NODES)
       /\ \A j \in 1..Len(tree) :
             (Eligible(tree[j]) /\ Rank(j) <= MAX_SNAPSHOT_NODES) =>
                treeRefs[Rank(j)] = [role |-> toLowerCase(tree[j].role),
                                     name |-> tree[j].name,
                                     nth |-> Occurrence(j)]
       /\ \A a, b \in DOMAIN treeRefs : a # b => treeRefs[a] # treeRefs[b]
       /\ \A j \in 1..Len(tree) :
             Eligible(tree[j]) <=> /\ toLowerCase(tree[j].role) \in INTERACTIVE_ROLES
                                   /\ toLowerCase(tree[j].role) # "combobox"
                                   /\ tree[j].name # "date"

\* The build pass has numbered two buttons of the same name, one written in
\* upper case, that an ineligible line separates.
C32_Witness ==
    /\ snapPc = "built"
    /\ tree = <<[role |-> "button", name |-> "x"], [role |-> "combobox", name |-> "x"],
                [role |-> "BUTTON", name |-> "x"]>>
    /\ treeRefs = <<[role |-> "button", name |-> "x", nth |-> 0],
                    [role |-> "button", name |-> "x", nth |-> 1]>>


\* C33: for a tree with more eligible lines than MAX_SNAPSHOT_NODES, the
\* table holds exactly the first MAX_SNAPSHOT_NODES eligible lines in
\* document order, and the annotate pass gives no ref id to an eligible
\* line beyond the cap.
C33_CapKeepsFirstLines ==
    (snapPc = "done" /\ Rank(Len(tree)) > MAX_SNAPSHOT_NODES) =>
       /\ Len(treeRefs) = MAX_SNAPSHOT_NODES
       /\ \A j \in 1..Len(tree) :
             Eligible(tree[j]) =>
                IF Rank(j) <= MAX_SNAPSHOT_NODES
                THEN treeRefs[Rank(j)] = [role |-> toLowerCase(tree[j].role),
                                          name |-> tree[j].name,
                                          nth |-> Occurrence(j)]
                ELSE annotated[j] = 0

\* The eligible line beyond the cap has the role and name of the first
\* line, which carries e1, and carries no ref id itself.
C33_Witness ==
    /\ snapPc = "done"
    /\ Len(tree) = 3
    /\ \A j \in 1..3 : Eligible(tree[j])
    /\ tree[3] = tree[1]
    /\ tree[2] # tree[1]
    /\ Len(treeRefs) = 2
    /\ annotated = <<1, 2, 0>>


\* C34: in the text GET /snapshot returns, every ref id of the reference
\* table annotates exactly one line, so no two lines carry the same ref id.
C34_AliasRefAnnotatesOneLine ==
    snapPc = "done" =>
       \A k \in DOMAIN treeRefs :
          Cardinality({j \in 1..Len(tree) : annotated[j] = k}) = 1


----------------------------------------------------------------------------
\* C35: for a text longer than MAX_SNAPSHOT_CHARS the offset windowSnapshot
\* reports is the requested offset clamped into
\* [0, length - SNAPSHOT_TAIL_CHARS]: 0 for a negative offset,
\* length - SNAPSHOT_TAIL_CHARS for an offset past that, the offset itself
\* otherwise; and the text returned is not empty.
C35_OffsetClamped ==
    (window # <<>> /\ Len(yaml) > MAX_SNAPSHOT_CHARS) =>
       /\ window[1].offset = (IF offset < 0 THEN 0
                              ELSE IF offset > Len(yaml) - SNAPSHOT_TAIL_CHARS
                              THEN Len(yaml) - SNAPSHOT_TAIL_CHARS
                              ELSE offset)
       /\ window[1].offset \in 0..(Len(yaml) - SNAPSHOT_TAIL_CHARS)
       /\ window[1].text # <<>>

\* An offset past the end of the text was requested and the last position
\* before the tail was reported.
C35_Witness ==
    /\ window # <<>>
    /\ Len(yaml) > MAX_SNAPSHOT_CHARS
    /\ offset = Len(yaml) + 1
    /\ window[1].offset = Len(yaml) - SNAPSHOT_TAIL_CHARS
    /\ ~window[1].hasMore


----------------------------------------------------------------------------
\* C36: DELETE /tabs/group/:key for an absent tenant or group answers ok
\* and changes nothing; otherwise, when it answers, the group it has closed
\* the tabs of is the one removed from the caller's session, the session
\* loses exactly that group's tabs, and every other group of the session
\* and every other session is as before.
C36_GroupCloseFrame ==
    [][\A r \in Reqs :
          /\ \A u \in Users, k \in GroupKeys :
                (/\ FreeSlot(r)
                 /\ (sessions[u] = 0 \/ sessGroups[sessions[u]][k] = 0)
                 /\ DeleteGroupEntry(r, u, k))
                   => (resp' = 200 /\ req' = req /\ UNCHANGED registry)
          /\ \A s \in SessIds, k \in GroupKeys, g \in GroupIds :
                (/\ req[r].pc = "dg_close" /\ req[r].sess = s /\ req[r].key = k
                 /\ req[r].grp = g
                 /\ sessions[req[r].user] = s
                 /\ DgClose(r) /\ req'[r].pc = "idle")
                   => /\ resp' = 200
                      /\ sessGroups'[s][k] = 0
                      /\ sessGroups[s][k] \in {0, g}
                      /\ TabsOfSession(s)' = TabsOfSession(s) \ groupTabs[g]
                      /\ \A j \in GroupKeys \ {k} :
                            /\ sessGroups'[s][j] = sessGroups[s][j]
                            /\ sessGroups[s][j] # 0 =>
                                  groupTabs'[sessGroups[s][j]] = groupTabs[sessGroups[s][j]]
                      /\ \A x \in Registered \ {s} :
                            /\ sessGroups'[x] = sessGroups[x]
                            /\ TabsOfSession(x)' = TabsOfSession(x)
                      /\ sessions' = sessions]_vars


----------------------------------------------------------------------------
\* A step stores a session for tenant u, and the handler that does so serves
\* a request of one of the kinds.
CreatedBy(u, kinds) ==
    (sessions[u] = 0 /\ sessions'[u] # 0) =>
       \E r \in Reqs : /\ req[r].pc = "gs_context"
                       /\ req[r].user = u
                       /\ req[r].kind \in kinds
                       /\ req'[r].pc # "gs_context"

\* A navigate, snapshot, click, type, stats, list-tabs, close-tab,
\* close-group or close-session request for a tenant without a session is
\* answered not-found (an empty list or ok for the last four), creates no
\* session and no browsing context and changes nothing else.
LookupsCreateNothing ==
    \A r \in Reqs, u \in Owners :
       (FreeSlot(r) /\ sessions[u] = 0) =>
          /\ \A t \in TabIds, op \in LazyOps, f \in BOOLEAN :
                TabOpEntry(r, u, t, op, f)
                   => (resp' = 404 /\ req' = req /\ UNCHANGED registry)
          /\ (\/ ListTabsEntry(r, u)
              \/ \E t \in TabIds : DeleteTabEntry(r, u, t)
              \/ DeleteGroupEntry(r, u, "default")
              \/ CloseSessionEntry(r, u))
                => (resp' = 200 /\ req' = req /\ UNCHANGED registry)

\* C37 as stated: a session is only ever created by a tab creation, and the
\* requests that look a session up never create one.
C37_CreatedByTabCreationOnly ==
    [][(\A u \in Users : CreatedBy(u, {"create", "open"})) /\ LookupsCreateNothing]_vars

\* C37 with the cookie import: a session is only ever created by a tab
\* creation or by a cookie import, and the requests that look a session up
\* never create one.
C37_CreatedByGetSessionOnly ==
    [][(\A u \in Users : CreatedBy(u, {"create", "open", "cookies"}))
          /\ LookupsCreateNothing]_vars

\* A tenant without a session was just answered not-found while another
\* tenant's cookie import is creating a session.
C37_Witness ==
    /\ resp = 404
    /\ sessions["A"] = 0
    /\ \E r \in Reqs : req[r].pc = "gs_context" /\ req[r].kind = "cookies"
                       /\ req[r].user = "B"
    /\ \A s \in SessIds : sessCtx[s] = "none"


----------------------------------------------------------------------------
\* C38: a browsing context that getSession created and that is still open
\* never ends up out of reach: a step after which neither the registry nor a
\* handler in progress refers to the session of an open context is the step
\* that closed the context (session-close answering ok, or the idle sweep).
C38_NoOpenContextOutOfReach ==
    [][\A s \in SessIds :
          (sessCtx[s] = "open" /\ s \notin SessInUse')
             => \/ s \in swept'
                \/ \E r \in Reqs : /\ req[r].pc = "cs_close" /\ req[r].sess = s
                                   /\ req'[r].pc = "idle" /\ resp' = 200]_vars


----------------------------------------------------------------------------
\* C39: when DELETE /tabs/:tabId or DELETE /tabs/group/:key closes a tab and
\* deletes its lock entry, no operation is executing on the tab under
\* withTabLock; and at no time do two operations execute on one tab under
\* withTabLock.
C39_CloseWaitsForOperation ==
    /\ [][\A r \in Reqs, t \in TabIds :
            (\/ req[r].pc = "dt_close" /\ req[r].tab = t /\ DtClose(r, TRUE)
             \/ req[r].pc = "dg_close" /\ req[r].tab = t /\ DgClose(r))
               => \A q \in Reqs : ~(Running(q, t) /\ Locked(req[q].kind))]_vars
    /\ [](\A t \in TabIds, q, r \in Reqs :
            (/\ Running(q, t) /\ Locked(req[q].kind)
             /\ Running(r, t) /\ Locked(req[r].kind)) => q = r)


----------------------------------------------------------------------------
\* C40: at most one browser instance is launched and live at a time, it is
\* the one the variable browser holds, and the ensureBrowser calls that have
\* returned while it is live all returned it.
C40_SingleBrowser ==
    /\ Cardinality(live) <= 1
    /\ live \subseteq {browser}
    /\ \A c \in Callers :
          (eb[c].kind = "ensure" /\ eb[c].pc = "done" /\ live # {}) => eb[c].got \in live

=============================================================================
